---- MODULE Spec2Model ----
(***************************************************************************)
(* Hospital_Management: the REST routes of apps/http (webRoutes.ts,        *)
(* bulk.ts) over the relational store of packages/db (migration.sql).      *)
(*                                                                         *)
(* The store is one variable per table, a set of rows.  A handler whose    *)
(* body holds one database call is one action.  A handler with several     *)
(* awaited database calls is a request in flight (variable req): each of   *)
(* its awaited calls is one step, and other requests may run between two   *)
(* steps, as they do on the Node event loop.  Every database call is       *)
(* atomic and is subject to the constraints of migration.sql (NOT NULL,    *)
(* enum types, the unique index on Disease.name, foreign keys with         *)
(* ON DELETE RESTRICT).                                                    *)
(***************************************************************************)
EXTENDS Integers, Sequences, FiniteSets, TLC

\* ----------------------------------------------------------------- bounds
MaxDept == 2
MaxStaff == 2
MaxBed == 2
MaxMedicine == 2
MaxInventory == 1
MaxDisease == 2
MaxRows == 3
MaxRaceDisease == 1
MaxTime == 5
MaxTimer == 4
MaxToday == 3

\* ------------------------------------------------- JSON values of a body
\* A field the request body does not carry (JavaScript undefined), for
\* string-valued and for number-valued fields, and JSON null for an id.
Undef == "<undefined>"
UndefId == -1
NullId == -2

\* JavaScript falsiness of an id field: undefined, null and 0.
Falsy(v) == v \in {UndefId, NullId, 0}

\* ------------------------------------------------------------------ state
VARIABLES
    department,   \* Department rows: set of ids
    staff,        \* Staff rows
    bed,          \* Bed rows
    medicine,     \* Medicine rows
    inventory,    \* Inventory rows
    disease,      \* Disease rows
    subcategory,  \* Subcategory rows
    ageGroup,     \* AgeGroup rows
    prescribed,   \* PrescribedMedicine rows
    seq,          \* the SERIAL sequences: next id per table
    req,          \* the requests in flight, per connection
    last,         \* the last exchange completed: request and response
    client        \* the React state of the browser client's components

tables == <<department, staff, bed, medicine, inventory, disease,
            subcategory, ageGroup, prescribed>>
vars == <<department, staff, bed, medicine, inventory, disease,
          subcategory, ageGroup, prescribed, seq, req, last, client>>

Ids(rows) == {r.id : r \in rows}
Row(rows, id) == CHOOSE r \in rows : r.id = id

\* An exchange: what the handler was, what it was given and what it answered.
\* For a request of several steps: the step that answered (at), what the
\* store held when the request arrived (before), and the payloads of the
\* PUTs of the same disease that answered 200 while it was in flight (peers).
NoBefore == [none |-> TRUE]

Exchange(op, id, body, status) ==
    [op |-> op, id |-> id, body |-> body, status |-> status, at |-> "",
     before |-> NoBefore, peers |-> {}, count |-> 0]

NoBody == [none |-> TRUE]

\* The step of a request in flight that answers nothing yet.
Silent == Exchange("none", UndefId, NoBody, 0)

Has(body, field) == field \in DOMAIN body

\* ------------------------------------------------------ requests in flight
Procs == {1, 2}

Idle == [op |-> "idle"]

InFlight(p) == req[p].op # "idle"

Arrive(p, op, id, body, pc, before) ==
    [op |-> op, id |-> id, body |-> body, pc |-> pc, before |-> before,
     peers |-> {}, i |-> 1, count |-> 0]

\* The answer of the request r at its step pc.
Reply(r, pc, status) ==
    [op |-> r.op, id |-> r.id, body |-> r.body, status |-> status,
     at |-> pc, before |-> r.before, peers |-> r.peers, count |-> r.count]

\* ------------------------------------------------------------ departments
\* department.create({data: {name}}): name is NOT NULL.
PostDepartment(name) ==
    /\ IF name # Undef
       THEN /\ seq.department <= MaxDept
            /\ department' = department \cup {seq.department}
            /\ seq' = [seq EXCEPT !.department = @ + 1]
            /\ last' = Exchange("PostDepartment", UndefId, [name |-> name], 201)
       ELSE /\ UNCHANGED <<department, seq>>
            /\ last' = Exchange("PostDepartment", UndefId, [name |-> name], 400)
    /\ UNCHANGED <<staff, bed, medicine, inventory, disease, subcategory,
                   ageGroup, prescribed, req>>

\* ------------------------------------------------------------------ staff
Specializations == {"nurse", "doctor"}

\* The business rules of POST /staff: the two early 400 returns.
PostStaffRejectNoNurseRule(specialization, departmentId) ==
    specialization # "nurse" /\ Falsy(departmentId)

PostStaffReject(specialization, departmentId) ==
    \/ specialization # "nurse" /\ Falsy(departmentId)
    \/ specialization = "nurse" /\ ~Falsy(departmentId)

\* What the database accepts for Staff.departmentId: NULL or an existing
\* Department (Staff_departmentId_fkey).
StaffDeptOk(departmentId) ==
    departmentId \in {UndefId, NullId} \/ departmentId \in department

StoredDept(departmentId) ==
    IF departmentId = UndefId THEN NullId ELSE departmentId

PostStaff(name, specialization, departmentId, isAvailable) ==
    LET body == [name |-> name, specialization |-> specialization,
                 departmentId |-> departmentId, isAvailable |-> isAvailable]
        created == name # Undef /\ specialization # Undef
                   /\ StaffDeptOk(departmentId)
    IN
    /\ IF PostStaffReject(specialization, departmentId)
       THEN /\ UNCHANGED <<staff, seq>>
            /\ last' = Exchange("PostStaff", UndefId, body, 400)
       ELSE IF created
       THEN /\ seq.staff <= MaxStaff
            /\ staff' = staff \cup
                 {[id |-> seq.staff, name |-> name,
                   specialization |-> specialization,
                   departmentId |-> StoredDept(departmentId),
                   isAvailable |-> IF isAvailable = Undef THEN "true"
                                   ELSE isAvailable]}
            /\ seq' = [seq EXCEPT !.staff = @ + 1]
            /\ last' = Exchange("PostStaff", UndefId, body, 201)
       ELSE /\ UNCHANGED <<staff, seq>>
            /\ last' = Exchange("PostStaff", UndefId, body, 400)
    /\ UNCHANGED <<department, bed, medicine, inventory, disease,
                   subcategory, ageGroup, prescribed, req>>

\* staff.update: a field that is undefined is left as it is.
Keep(new, old) == IF new = Undef THEN old ELSE new
KeepId(new, old) == IF new = UndefId THEN old ELSE new

PutStaff(id, name, specialization, departmentId, isAvailable) ==
    LET body == [name |-> name, specialization |-> specialization,
                 departmentId |-> departmentId, isAvailable |-> isAvailable]
    IN
    /\ IF id \in Ids(staff) /\ StaffDeptOk(departmentId)
       THEN LET old == Row(staff, id) IN
            /\ staff' = (staff \ {old}) \cup
                 {[id |-> id, name |-> Keep(name, old.name),
                   specialization |-> Keep(specialization, old.specialization),
                   departmentId |-> KeepId(departmentId, old.departmentId),
                   isAvailable |-> Keep(isAvailable, old.isAvailable)]}
            /\ last' = Exchange("PutStaff", id, body, 200)
       ELSE /\ UNCHANGED staff
            /\ last' = Exchange("PutStaff", id, body, 400)
    /\ UNCHANGED <<department, bed, medicine, inventory, disease,
                   subcategory, ageGroup, prescribed, seq, req>>

DeleteStaff(id) ==
    /\ IF id \in Ids(staff)
       THEN /\ staff' = staff \ {Row(staff, id)}
            /\ last' = Exchange("DeleteStaff", id, NoBody, 200)
       ELSE /\ UNCHANGED staff
            /\ last' = Exchange("DeleteStaff", id, NoBody, 400)
    /\ UNCHANGED <<department, bed, medicine, inventory, disease,
                   subcategory, ageGroup, prescribed, seq, req>>

\* ------------------------------------------------------------------- beds
\* CREATE TYPE "BedStatus" AS ENUM ('FREE', 'OCCUPIED', 'MAINTENANCE')
BedStatus == {"FREE", "OCCUPIED", "MAINTENANCE"}

\* What the database accepts for Bed.status on create: the column is an
\* enum, NOT NULL, and has no default.
BedStatusOkAnyText(status) == status # Undef

BedStatusOk(status) == status \in BedStatus

\* Bed.departmentId is NOT NULL and references Department
\* (Bed_departmentId_fkey).
BedDeptOk(departmentId) == departmentId \in department

PostBed(type, status, departmentId) ==
    LET body == [type |-> type, status |-> status,
                 departmentId |-> departmentId]
    IN
    /\ IF type = Undef \/ Falsy(departmentId)
       THEN /\ UNCHANGED <<bed, seq>>
            /\ last' = Exchange("PostBed", UndefId, body, 400)
       ELSE IF BedStatusOk(status) /\ BedDeptOk(departmentId)
       THEN /\ seq.bed <= MaxBed
            /\ bed' = bed \cup {[id |-> seq.bed, type |-> type,
                                 status |-> status,
                                 departmentId |-> departmentId]}
            /\ seq' = [seq EXCEPT !.bed = @ + 1]
            /\ last' = Exchange("PostBed", UndefId, body, 201)
       ELSE /\ UNCHANGED <<bed, seq>>
            /\ last' = Exchange("PostBed", UndefId, body, 400)
    /\ UNCHANGED <<department, staff, medicine, inventory, disease,
                   subcategory, ageGroup, prescribed, req>>

PutBed(id, type, status, departmentId) ==
    LET body == [type |-> type, status |-> status,
                 departmentId |-> departmentId]
    IN
    /\ IF /\ id \in Ids(bed)
          /\ (status = Undef \/ BedStatusOk(status))
          /\ (departmentId = UndefId \/ BedDeptOk(departmentId))
       THEN LET old == Row(bed, id) IN
            /\ bed' = (bed \ {old}) \cup
                 {[id |-> id, type |-> Keep(type, old.type),
                   status |-> Keep(status, old.status),
                   departmentId |-> KeepId(departmentId, old.departmentId)]}
            /\ last' = Exchange("PutBed", id, body, 200)
       ELSE /\ UNCHANGED bed
            /\ last' = Exchange("PutBed", id, body, 400)
    /\ UNCHANGED <<department, staff, medicine, inventory, disease,
                   subcategory, ageGroup, prescribed, seq, req>>

DeleteBed(id) ==
    /\ IF id \in Ids(bed)
       THEN /\ bed' = bed \ {Row(bed, id)}
            /\ last' = Exchange("DeleteBed", id, NoBody, 200)
       ELSE /\ UNCHANGED bed
            /\ last' = Exchange("DeleteBed", id, NoBody, 400)
    /\ UNCHANGED <<department, staff, medicine, inventory, disease,
                   subcategory, ageGroup, prescribed, seq, req>>

\* -------------------------------------------------- medicines, inventory
\* parseInt reads the longest integer prefix of the text; NaN when there is
\* none.
NaN == -3

parseInt(text) ==
    CASE text = "1" -> 1
      [] text = "2" -> 2
      [] text = "0" -> 0
      [] text = "-7" -> -7
      [] text = "1x" -> 1
      [] text = "abc" -> NaN
      [] text = "" -> NaN

Full == [name |-> "x", form |-> "tablet", strength |-> "500", unit |-> "mg"]

MedicineFields == {"name", "form", "strength", "unit"}

\* POST /medicines: 400 unless name, form, strength and unit are all there.
PostMedicine(body) ==
    /\ IF \E f \in MedicineFields : ~Has(body, f)
       THEN /\ UNCHANGED <<medicine, seq>>
            /\ last' = Exchange("PostMedicine", UndefId, body, 400)
       ELSE /\ seq.medicine <= MaxMedicine
            /\ medicine' = medicine \cup
                 {[id |-> seq.medicine, name |-> body.name,
                   form |-> body.form, strength |-> body.strength,
                   unit |-> body.unit]}
            /\ seq' = [seq EXCEPT !.medicine = @ + 1]
            /\ last' = Exchange("PostMedicine", UndefId, body, 201)
    /\ UNCHANGED req
    /\ UNCHANGED <<department, staff, bed, inventory, disease, subcategory,
                   ageGroup, prescribed>>

\* Inventory.medicineId and Inventory.availableQty are NOT NULL, and
\* medicineId references Medicine (Inventory_medicineId_fkey).
InventoryCreateOk(body) ==
    /\ Has(body, "medicineId") /\ Has(body, "availableQty")
    /\ body.medicineId \in Ids(medicine)

PostInventory(body) ==
    /\ IF InventoryCreateOk(body)
       THEN /\ seq.inventory <= MaxInventory
            /\ inventory' = inventory \cup
                 {[id |-> seq.inventory, medicineId |-> body.medicineId,
                   availableQty |-> body.availableQty]}
            /\ seq' = [seq EXCEPT !.inventory = @ + 1]
            /\ last' = Exchange("PostInventory", UndefId, body, 201)
       ELSE /\ UNCHANGED <<inventory, seq>>
            /\ last' = Exchange("PostInventory", UndefId, body, 400)
    /\ UNCHANGED req
    /\ UNCHANGED <<department, staff, bed, medicine, disease, subcategory,
                   ageGroup, prescribed>>

DeleteInventory(id) ==
    /\ IF id \in Ids(inventory)
       THEN /\ inventory' = inventory \ {Row(inventory, id)}
            /\ last' = Exchange("DeleteInventory", id, NoBody, 200)
       ELSE /\ UNCHANGED inventory
            /\ last' = Exchange("DeleteInventory", id, NoBody, 400)
    /\ UNCHANGED req
    /\ UNCHANGED <<department, staff, bed, medicine, disease, subcategory,
                   ageGroup, prescribed, seq>>

\* The rows that name the medicine m.
PrescriptionsOf(m) == {pm \in prescribed : pm.medicineId = m}
InventoryOf(m) == {iv \in inventory : iv.medicineId = m}

\* prescribedMedicine.count({where: {medicineId}})
PrescriptionCountUnchecked(m) == 0

PrescriptionCount(m) == Cardinality(PrescriptionsOf(m))

\* inventory.count({where: {medicineId}})
InventoryCount(m) == Cardinality(InventoryOf(m))

\* medicine.delete({where: {id}}) under PrescribedMedicine_medicineId_fkey
\* and Inventory_medicineId_fkey, both ON DELETE RESTRICT.
MedicineDeleteOkNoFk(m) == TRUE

MedicineDeleteOk(m) == PrescriptionsOf(m) = {} /\ InventoryOf(m) = {}

\* DELETE /medicines/:id, first await: prescribedMedicine.count.
DeleteMedicineCountPrescriptions(p, m) ==
    LET r == Arrive(p, "DeleteMedicine", m, NoBody, "countInventory",
                    [exists |-> m \in Ids(medicine),
                     prescribed |-> PrescriptionsOf(m),
                     inventory |-> InventoryOf(m)])
    IN
    /\ ~InFlight(p)
    /\ IF PrescriptionCount(m) > 0
       THEN /\ UNCHANGED req
            /\ last' = Reply(r, "countPrescriptions", 400)
       ELSE /\ req' = [req EXCEPT ![p] = r]
            /\ last' = Silent
    /\ UNCHANGED <<tables, seq>>

\* second await: inventory.count.
DeleteMedicineCountInventory(p) ==
    /\ InFlight(p)
    /\ req[p].op = "DeleteMedicine" /\ req[p].pc = "countInventory"
    /\ IF InventoryCount(req[p].id) > 0
       THEN /\ req' = [req EXCEPT ![p] = Idle]
            /\ last' = Reply(req[p], "countInventory", 400)
       ELSE /\ req' = [req EXCEPT ![p].pc = "delete"]
            /\ last' = Silent
    /\ UNCHANGED <<tables, seq>>

\* third await: medicine.delete; P2025 (no such row) answers 404, every
\* other error 400.
DeleteMedicineDelete(p) ==
    /\ InFlight(p)
    /\ req[p].op = "DeleteMedicine" /\ req[p].pc = "delete"
    /\ req' = [req EXCEPT ![p] = Idle]
    /\ IF req[p].id \notin Ids(medicine)
       THEN /\ UNCHANGED medicine
            /\ last' = Reply(req[p], "delete", 404)
       ELSE IF MedicineDeleteOk(req[p].id)
       THEN /\ medicine' = medicine \ {Row(medicine, req[p].id)}
            /\ last' = Reply(req[p], "delete", 200)
       ELSE /\ UNCHANGED medicine
            /\ last' = Reply(req[p], "delete", 400)
    /\ UNCHANGED <<department, staff, bed, inventory, disease, subcategory,
                   ageGroup, prescribed, seq>>

\* GET /medicines/:id: 400 when parseInt of the parameter is NaN, 404 when
\* findUnique finds no row.
GetMedicine(idText) ==
    LET medicineId == parseInt(idText) IN
    /\ last' = Exchange("GetMedicine", medicineId, [id |-> idText],
                        IF medicineId = NaN THEN 400
                        ELSE IF medicineId \notin Ids(medicine) THEN 404
                        ELSE 200)
    /\ UNCHANGED <<tables, seq, req>>

\* PUT /medicines/:id: 400 when parseInt of the parameter is NaN or one of
\* the four fields is falsy, then medicine.update; P2025 answers 404.
PutMedicine(idText, body) ==
    LET medicineId == parseInt(idText)
        answer(status) == Exchange("PutMedicine", medicineId,
                                   [id |-> idText, data |-> body], status)
    IN
    /\ IF medicineId = NaN
          \/ \E f \in MedicineFields : ~Has(body, f) \/ body[f] = ""
       THEN /\ UNCHANGED medicine
            /\ last' = answer(400)
       ELSE IF medicineId \notin Ids(medicine)
       THEN /\ UNCHANGED medicine
            /\ last' = answer(404)
       ELSE /\ medicine' = (medicine \ {Row(medicine, medicineId)}) \cup
                 {[id |-> medicineId, name |-> body.name,
                   form |-> body.form, strength |-> body.strength,
                   unit |-> body.unit]}
            /\ last' = answer(200)
    /\ UNCHANGED <<department, staff, bed, inventory, disease, subcategory,
                   ageGroup, prescribed, seq, req>>

\* DELETE /medicines/:id arrives: 400 when parseInt of the parameter is NaN,
\* and the first await when it is a number.
DeleteMedicine(p, idText) ==
    IF parseInt(idText) = NaN
    THEN /\ ~InFlight(p)
         /\ last' = Exchange("DeleteMedicine", NaN, [id |-> idText], 400)
         /\ UNCHANGED <<tables, seq, req>>
    ELSE DeleteMedicineCountPrescriptions(p, parseInt(idText))

\* --------------------------------------------------- the disease aggregate
\* CREATE TYPE "AgeGroupEnum" AS ENUM ('CHILD', 'TEENAGER', 'ADULT', 'OLDER')
AgeGroupEnum == {"CHILD", "TEENAGER", "ADULT", "OLDER"}

\* The rows of the disease d, table by table.
SubcategoriesOf(d) == {sc \in subcategory : sc.diseaseId = d}
AgeGroupsOf(d) ==
    {ag \in ageGroup : ag.subcategoryId \in Ids(SubcategoriesOf(d))}
PrescribedOf(d) ==
    {pm \in prescribed : pm.ageGroupId \in Ids(AgeGroupsOf(d))}

\* Rows in the order of their ids, the order they were created in.
RECURSIVE SeqById(_)
SeqById(rows) ==
    IF rows = {} THEN <<>>
    ELSE LET r == CHOOSE x \in rows : \A o \in rows : x.id <= o.id
         IN  <<r>> \o SeqById(rows \ {r})

\* The stored tree of the disease d, without the ids.
StoredTree(d) ==
    LET scs == SeqById(SubcategoriesOf(d)) IN
    [i \in 1 .. Len(scs) |->
        LET ags == SeqById({ag \in ageGroup : ag.subcategoryId = scs[i].id})
        IN  [name |-> scs[i].name,
             age_groups |->
               [j \in 1 .. Len(ags) |->
                  LET pms == SeqById({pm \in prescribed :
                                        pm.ageGroupId = ags[j].id})
                  IN  [group |-> ags[j].group,
                       age_range |-> ags[j].ageRange,
                       medicines |->
                         [k \in 1 .. Len(pms) |->
                            [medicineId |-> pms[k].medicineId,
                             dosage |-> pms[k].dosage,
                             notes |-> pms[k].notes]]]]]]

\* A medicineId that the JSON body gives as a string is the field
\* medicineIdString of the item, one given as a number the field medicineId.
\* validateDiseasePayload: a field is required when it is there and truthy;
\* a string medicineId has to parse to a number greater than 0.
validateDiseasePayload(body) ==
    /\ Has(body, "name") /\ body.name # ""
    /\ Has(body, "subcategories") /\ Len(body.subcategories) > 0
    /\ \A i \in 1 .. Len(body.subcategories) :
         LET sc == body.subcategories[i] IN
         /\ Has(sc, "name") /\ sc.name # ""
         /\ Has(sc, "age_groups") /\ Len(sc.age_groups) > 0
         /\ \A j \in 1 .. Len(sc.age_groups) :
              LET ag == sc.age_groups[j] IN
              /\ Has(ag, "group") /\ ag.group # ""
              /\ Has(ag, "age_range") /\ ag.age_range # ""
              /\ Has(ag, "medicines") /\ Len(ag.medicines) > 0
              /\ \A k \in 1 .. Len(ag.medicines) :
                   LET m == ag.medicines[k] IN
                   /\ Has(m, "dosage") /\ m.dosage # ""
                   /\ IF Has(m, "medicineIdString")
                      THEN /\ m.medicineIdString # ""
                           /\ parseInt(m.medicineIdString) # NaN
                           /\ parseInt(m.medicineIdString) > 0
                      ELSE Has(m, "medicineId") /\ m.medicineId # 0

\* subcategories.map(...), sc.age_groups.map(...), ag.medicines.map(...):
\* a TypeError when the array is not there.
MapThrows(body) ==
    \/ ~Has(body, "subcategories")
    \/ \E i \in 1 .. Len(body.subcategories) :
         LET sc == body.subcategories[i] IN
         \/ ~Has(sc, "age_groups")
         \/ \E j \in 1 .. Len(sc.age_groups) :
              ~Has(sc.age_groups[j], "medicines")

\* The nested create the web routes hand to Prisma: group as it is given,
\* notes ?? "", a string medicineId through parseInt and a number as it is.
CreateData(subs) ==
    [i \in 1 .. Len(subs) |->
       [name |-> IF Has(subs[i], "name") THEN subs[i].name ELSE Undef,
        age_groups |->
          [j \in 1 .. Len(subs[i].age_groups) |->
             LET ag == subs[i].age_groups[j] IN
             [group |-> IF Has(ag, "group") THEN ag.group ELSE Undef,
              age_range |-> IF Has(ag, "age_range") THEN ag.age_range
                            ELSE Undef,
              medicines |->
                [k \in 1 .. Len(ag.medicines) |->
                   LET m == ag.medicines[k] IN
                   [medicineId |-> IF Has(m, "medicineIdString")
                                   THEN parseInt(m.medicineIdString)
                                   ELSE IF Has(m, "medicineId")
                                   THEN m.medicineId
                                   ELSE UndefId,
                    dosage |-> IF Has(m, "dosage") THEN m.dosage ELSE Undef,
                    notes |-> IF Has(m, "notes") THEN m.notes ELSE ""]]]]]]

\* What Prisma and the schema accept of a nested create, before any row is
\* written: the NOT NULL columns are there and group is of the enum.
DataValid(data) ==
    \A i \in 1 .. Len(data) :
       /\ data[i].name # Undef
       /\ \A j \in 1 .. Len(data[i].age_groups) :
            LET ag == data[i].age_groups[j] IN
            /\ ag.group \in AgeGroupEnum
            /\ ag.age_range # Undef
            /\ \A k \in 1 .. Len(ag.medicines) :
                 /\ ag.medicines[k].dosage # Undef
                 /\ ag.medicines[k].medicineId # UndefId

\* medicine: {connect: {id}}: the medicine has to be there
\* (PrescribedMedicine_medicineId_fkey).
MedicinesConnect(data) ==
    \A i \in 1 .. Len(data) :
       \A j \in 1 .. Len(data[i].age_groups) :
          \A k \in 1 .. Len(data[i].age_groups[j].medicines) :
             data[i].age_groups[j].medicines[k].medicineId \in Ids(medicine)

\* Positions of the age groups and of the medicines of a nested create, and
\* the number of positions before one: rows are inserted in that order.
AgIdx(data) ==
    UNION {{<<i, j>> : j \in 1 .. Len(data[i].age_groups)} :
           i \in 1 .. Len(data)}
PmIdx(data) ==
    UNION {{<<ij[1], ij[2], k>> :
              k \in 1 .. Len(data[ij[1]].age_groups[ij[2]].medicines)} :
           ij \in AgIdx(data)}
AgRank(data, i, j) ==
    Cardinality({q \in AgIdx(data) :
                   q[1] < i \/ (q[1] = i /\ q[2] < j)})
PmRank(data, i, j, k) ==
    Cardinality({q \in PmIdx(data) :
                   \/ q[1] < i
                   \/ q[1] = i /\ q[2] < j
                   \/ q[1] = i /\ q[2] = j /\ q[3] < k})

\* The SERIAL sequences have room for the rows of a nested create.
RowsFit(data) ==
    /\ seq.subcategory + Len(data) - 1 <= MaxRows
    /\ seq.ageGroup + Cardinality(AgIdx(data)) - 1 <= MaxRows
    /\ seq.prescribed + Cardinality(PmIdx(data)) - 1 <= MaxRows

\* The nested create of the tree data under the disease d: one transaction.
CreateTree(d, data) ==
    /\ subcategory' = subcategory \cup
         {[id |-> seq.subcategory + i - 1, name |-> data[i].name,
           diseaseId |-> d] : i \in 1 .. Len(data)}
    /\ ageGroup' = ageGroup \cup
         {[id |-> seq.ageGroup + AgRank(data, q[1], q[2]),
           group |-> data[q[1]].age_groups[q[2]].group,
           ageRange |-> data[q[1]].age_groups[q[2]].age_range,
           subcategoryId |-> seq.subcategory + q[1] - 1] : q \in AgIdx(data)}
    /\ prescribed' = prescribed \cup
         {[id |-> seq.prescribed + PmRank(data, q[1], q[2], q[3]),
           ageGroupId |-> seq.ageGroup + AgRank(data, q[1], q[2]),
           medicineId |->
             data[q[1]].age_groups[q[2]].medicines[q[3]].medicineId,
           dosage |-> data[q[1]].age_groups[q[2]].medicines[q[3]].dosage,
           notes |-> data[q[1]].age_groups[q[2]].medicines[q[3]].notes] :
          q \in PmIdx(data)}

SeqAfterTree(data) ==
    [seq EXCEPT !.subcategory = @ + Len(data),
                !.ageGroup = @ + Cardinality(AgIdx(data)),
                !.prescribed = @ + Cardinality(PmIdx(data))]

\* CREATE UNIQUE INDEX "Disease_name_key": no other row has the name.
UniqueNameNoIndex(rows, name, self) == TRUE

UniqueName(rows, name, self) ==
    \A d \in rows : d.id # self => d.name # name

DiseaseNameFree(name, self) == UniqueName(disease, name, self)

\* POST /diseases: validate, then one disease.create with its nested
\* creates.  P2002 (the unique index) answers 409, every other error 400.
PostDisease(body) ==
    /\ IF ~validateDiseasePayload(body)
          \/ ~DataValid(CreateData(body.subcategories))
       THEN /\ UNCHANGED <<disease, subcategory, ageGroup, prescribed, seq>>
            /\ last' = Exchange("PostDisease", UndefId, body, 400)
       ELSE IF ~DiseaseNameFree(body.name, 0)
       THEN /\ UNCHANGED <<disease, subcategory, ageGroup, prescribed, seq>>
            /\ last' = Exchange("PostDisease", UndefId, body, 409)
       ELSE IF ~MedicinesConnect(CreateData(body.subcategories))
       THEN /\ UNCHANGED <<disease, subcategory, ageGroup, prescribed, seq>>
            /\ last' = Exchange("PostDisease", UndefId, body, 400)
       ELSE /\ seq.disease <= MaxDisease
            /\ RowsFit(CreateData(body.subcategories))
            /\ disease' = disease \cup
                 {[id |-> seq.disease, name |-> body.name]}
            /\ CreateTree(seq.disease, CreateData(body.subcategories))
            /\ seq' = [SeqAfterTree(CreateData(body.subcategories))
                         EXCEPT !.disease = @ + 1]
            /\ last' = Exchange("PostDisease", seq.disease, body, 201)
    /\ UNCHANGED req
    /\ UNCHANGED <<department, staff, bed, medicine, inventory>>

\* What a disease request finds when it arrives.
DiseaseBefore(d) ==
    [exists |-> d \in Ids(disease),
     name |-> IF d \in Ids(disease) THEN Row(disease, d).name ELSE Undef,
     tree |-> StoredTree(d)]

\* ageGroup.deleteMany under PrescribedMedicine_ageGroupId_fkey and
\* subcategory.deleteMany under AgeGroup_subcategoryId_fkey, both
\* ON DELETE RESTRICT: the statement fails as a whole when a row it would
\* delete is still referenced.
AgeGroupsDeletable(d) ==
    \A ag \in AgeGroupsOf(d) :
       \A pm \in prescribed : pm.ageGroupId # ag.id

SubcategoriesDeletable(d) ==
    \A sc \in SubcategoriesOf(d) :
       \A ag \in ageGroup : ag.subcategoryId # sc.id

\* prescribedMedicine.deleteMany({where: {ageGroup: {subcategory:
\* {diseaseId}}}})
DeleteManyPrescribedAll(d) == {}

DeleteManyPrescribedNone(d) == prescribed

DeleteManyPrescribed(d) == prescribed \ PrescribedOf(d)

\* subcategory.deleteMany({where: {diseaseId}})
DeleteManySubcategoriesNone(d) == subcategory

DeleteManySubcategories(d) == subcategory \ SubcategoriesOf(d)

\* PUT /diseases/:id, first await: prescribedMedicine.deleteMany.
PutDiseaseDeletePrescribed(p, d, body) ==
    /\ ~InFlight(p)
    /\ prescribed' = DeleteManyPrescribed(d)
    /\ req' = [req EXCEPT
                 ![p] = Arrive(p, "PutDisease", d, body, "deleteAgeGroups",
                               DiseaseBefore(d))]
    /\ last' = Silent
    /\ UNCHANGED <<department, staff, bed, medicine, inventory, disease,
                   subcategory, ageGroup, seq>>

\* second await: ageGroup.deleteMany.
PutDiseaseDeleteAgeGroups(p) ==
    /\ InFlight(p)
    /\ req[p].op = "PutDisease" /\ req[p].pc = "deleteAgeGroups"
    /\ IF AgeGroupsDeletable(req[p].id)
       THEN /\ ageGroup' = ageGroup \ AgeGroupsOf(req[p].id)
            /\ req' = [req EXCEPT ![p].pc = "deleteSubcategories"]
            /\ last' = Silent
       ELSE /\ UNCHANGED ageGroup
            /\ req' = [req EXCEPT ![p] = Idle]
            /\ last' = Reply(req[p], "deleteAgeGroups", 500)
    /\ UNCHANGED <<department, staff, bed, medicine, inventory, disease,
                   subcategory, prescribed, seq>>

\* third await: subcategory.deleteMany.
PutDiseaseDeleteSubcategories(p) ==
    /\ InFlight(p)
    /\ req[p].op = "PutDisease" /\ req[p].pc = "deleteSubcategories"
    /\ IF SubcategoriesDeletable(req[p].id)
       THEN /\ subcategory' = DeleteManySubcategories(req[p].id)
            /\ req' = [req EXCEPT ![p].pc = "update"]
            /\ last' = Silent
       ELSE /\ UNCHANGED subcategory
            /\ req' = [req EXCEPT ![p] = Idle]
            /\ last' = Reply(req[p], "deleteSubcategories", 500)
    /\ UNCHANGED <<department, staff, bed, medicine, inventory, disease,
                   ageGroup, prescribed, seq>>

\* disease.update({where: {id}, data: {name, subcategories: {create}}}):
\* the row is there, the name is free, the nested create is accepted.
UpdateAccepted(d, body) ==
    /\ ~MapThrows(body)
    /\ d \in Ids(disease)
    /\ DataValid(CreateData(body.subcategories))
    /\ Has(body, "name") => DiseaseNameFree(body.name, d)
    /\ MedicinesConnect(CreateData(body.subcategories))

\* The PUTs of the same disease that are in flight learn of this answer.
Tell(p, d, tree) ==
    [q \in Procs |->
        IF q = p THEN Idle
        ELSE IF InFlight(q) /\ req[q].op = "PutDisease" /\ req[q].id = d
        THEN [req[q] EXCEPT !.peers = @ \cup {tree}]
        ELSE req[q]]

\* fourth await: disease.update; every error answers 500.
PutDiseaseUpdate(p) ==
    LET d == req[p].id
        body == req[p].body
    IN
    /\ InFlight(p)
    /\ req[p].op = "PutDisease" /\ req[p].pc = "update"
    /\ IF UpdateAccepted(d, body)
       THEN LET data == CreateData(body.subcategories) IN
            /\ RowsFit(data)
            /\ disease' = (disease \ {Row(disease, d)}) \cup
                 {[id |-> d,
                   name |-> IF Has(body, "name") THEN body.name
                            ELSE Row(disease, d).name]}
            /\ CreateTree(d, data)
            /\ seq' = SeqAfterTree(data)
            /\ req' = Tell(p, d, data)
            /\ last' = Reply(req[p], "update", 200)
       ELSE /\ UNCHANGED <<disease, subcategory, ageGroup, prescribed, seq>>
            /\ req' = [req EXCEPT ![p] = Idle]
            /\ last' = Reply(req[p], "update", 500)
    /\ UNCHANGED <<department, staff, bed, medicine, inventory>>

\* DELETE /disease/:id, first await: prescribedMedicine.deleteMany.
DeleteDiseaseDeletePrescribed(p, d) ==
    /\ ~InFlight(p)
    /\ prescribed' = DeleteManyPrescribed(d)
    /\ req' = [req EXCEPT
                 ![p] = Arrive(p, "DeleteDisease", d, NoBody,
                               "deleteAgeGroups", DiseaseBefore(d))]
    /\ last' = Silent
    /\ UNCHANGED <<department, staff, bed, medicine, inventory, disease,
                   subcategory, ageGroup, seq>>

\* second await: ageGroup.deleteMany.
DeleteDiseaseDeleteAgeGroups(p) ==
    /\ InFlight(p)
    /\ req[p].op = "DeleteDisease" /\ req[p].pc = "deleteAgeGroups"
    /\ IF AgeGroupsDeletable(req[p].id)
       THEN /\ ageGroup' = ageGroup \ AgeGroupsOf(req[p].id)
            /\ req' = [req EXCEPT ![p].pc = "deleteSubcategories"]
            /\ last' = Silent
       ELSE /\ UNCHANGED ageGroup
            /\ req' = [req EXCEPT ![p] = Idle]
            /\ last' = Reply(req[p], "deleteAgeGroups", 400)
    /\ UNCHANGED <<department, staff, bed, medicine, inventory, disease,
                   subcategory, prescribed, seq>>

\* third await: subcategory.deleteMany.
DeleteDiseaseDeleteSubcategories(p) ==
    /\ InFlight(p)
    /\ req[p].op = "DeleteDisease" /\ req[p].pc = "deleteSubcategories"
    /\ IF SubcategoriesDeletable(req[p].id)
       THEN /\ subcategory' = DeleteManySubcategories(req[p].id)
            /\ req' = [req EXCEPT ![p].pc = "delete"]
            /\ last' = Silent
       ELSE /\ UNCHANGED subcategory
            /\ req' = [req EXCEPT ![p] = Idle]
            /\ last' = Reply(req[p], "deleteSubcategories", 400)
    /\ UNCHANGED <<department, staff, bed, medicine, inventory, disease,
                   ageGroup, prescribed, seq>>

\* disease.delete({where: {id}}) under Subcategory_diseaseId_fkey,
\* ON DELETE RESTRICT.
DiseaseDeleteOk(d) == d \in Ids(disease) /\ SubcategoriesOf(d) = {}

\* fourth await: disease.delete; every error answers 400.
DeleteDiseaseDelete(p) ==
    /\ InFlight(p)
    /\ req[p].op = "DeleteDisease" /\ req[p].pc = "delete"
    /\ req' = [req EXCEPT ![p] = Idle]
    /\ IF DiseaseDeleteOk(req[p].id)
       THEN /\ disease' = disease \ {Row(disease, req[p].id)}
            /\ last' = Reply(req[p], "delete", 200)
       ELSE /\ UNCHANGED disease
            /\ last' = Reply(req[p], "delete", 400)
    /\ UNCHANGED <<department, staff, bed, medicine, inventory, subcategory,
                   ageGroup, prescribed, seq>>

\* ------------------------------------------------------------ bulk routes
\* createMany({data, skipDuplicates: true}): the rows in order, a row whose
\* name is taken is left out (ON CONFLICT DO NOTHING on the unique index).
RECURSIVE CreateManyDiseases(_, _, _)
CreateManyDiseases(items, rows, next) ==
    IF items = <<>> THEN [rows |-> rows, next |-> next]
    ELSE IF UniqueName(rows, Head(items).name, 0)
    THEN CreateManyDiseases(Tail(items),
                            rows \cup {[id |-> next,
                                        name |-> Head(items).name]},
                            next + 1)
    ELSE CreateManyDiseases(Tail(items), rows, next)

\* bulk POST /diseases: disease names only.
BulkDiseases(body) ==
    /\ IF ~Has(body, "array")
       THEN /\ UNCHANGED <<disease, seq>>
            /\ last' = Exchange("BulkDiseases", UndefId, body, 400)
       ELSE IF \E i \in 1 .. Len(body.array) :
                  ~Has(body.array[i], "name") \/ body.array[i].name = ""
       THEN /\ UNCHANGED <<disease, seq>>
            /\ last' = Exchange("BulkDiseases", UndefId, body, 400)
       ELSE LET made == CreateManyDiseases(body.array, disease, seq.disease)
            IN  /\ made.next - 1 <= MaxDisease
                /\ disease' = made.rows
                /\ seq' = [seq EXCEPT !.disease = made.next]
                /\ last' = [Exchange("BulkDiseases", UndefId, body, 201)
                              EXCEPT !.count = made.next - seq.disease]
    /\ UNCHANGED req
    /\ UNCHANGED <<department, staff, bed, medicine, inventory, subcategory,
                   ageGroup, prescribed>>

\* groupMap is an object literal: groupMap[group] also finds the members
\* every object inherits from Object.prototype, which are functions or
\* objects, truthy and no value of the enum.
ObjectPrototypeKeys == {"constructor", "toString", "valueOf", "__proto__"}

InheritedMember == "<member of Object.prototype>"

mapGroupToEnum(group) ==
    IF group \in {"Child", "child", "CHILD"} THEN "CHILD"
    ELSE IF group \in {"Teenager", "teenager", "TEENAGER"} THEN "TEENAGER"
    ELSE IF group \in {"Adult", "adult", "ADULT"} THEN "ADULT"
    ELSE IF group \in {"Older", "older", "OLDER"} THEN "OLDER"
    ELSE IF group \in ObjectPrototypeKeys THEN InheritedMember
    ELSE "ADULT"

\* The nested create of bulk POST /diseases/complex: age_groups?.map(...)
\* || [], medicines?.map(...) || [], group through mapGroupToEnum.
BulkCreateData(subs) ==
    [i \in 1 .. Len(subs) |->
       [name |-> IF Has(subs[i], "name") THEN subs[i].name ELSE Undef,
        age_groups |->
          IF ~Has(subs[i], "age_groups") THEN <<>>
          ELSE
          [j \in 1 .. Len(subs[i].age_groups) |->
             LET ag == subs[i].age_groups[j] IN
             [group |-> mapGroupToEnum(IF Has(ag, "group") THEN ag.group
                                       ELSE Undef),
              age_range |-> IF Has(ag, "age_range") THEN ag.age_range
                            ELSE Undef,
              medicines |->
                IF ~Has(ag, "medicines") THEN <<>>
                ELSE
                [k \in 1 .. Len(ag.medicines) |->
                   LET m == ag.medicines[k] IN
                   [medicineId |-> IF Has(m, "medicineIdString")
                                   THEN parseInt(m.medicineIdString)
                                   ELSE IF Has(m, "medicineId")
                                   THEN m.medicineId
                                   ELSE UndefId,
                    dosage |-> IF Has(m, "dosage") THEN m.dosage ELSE Undef,
                    notes |-> IF Has(m, "notes") THEN m.notes ELSE ""]]]]]]

\* results.push(disease): results.length after it, which the answer gives
\* as count.
ResultsPushNothing(count) == count

ResultsPush(count) == count + 1

\* One turn of the loop of bulk POST /diseases/complex for the request r:
\* the check of item r.i, its disease.create, and the answer when the item
\* is the last one or the turn fails.
BulkComplexTurn(p, r) ==
    LET item == r.body.array[r.i]
        isLast == r.i = Len(r.body.array)
        goOn(n) == IF isLast THEN [req EXCEPT ![p] = Idle]
                   ELSE [req EXCEPT
                           ![p] = [r EXCEPT !.i = @ + 1, !.count = n]]
        answer(n) == IF isLast
                     THEN Reply([r EXCEPT !.count = n], "create", 201)
                     ELSE Silent
        fail(pc) == /\ UNCHANGED <<disease, subcategory, ageGroup,
                                   prescribed, seq>>
                    /\ req' = [req EXCEPT ![p] = Idle]
                    /\ last' = Reply(r, pc, 400)
    IN
    IF ~Has(item, "name") \/ item.name = "" \/ ~Has(item, "subcategories")
    THEN fail("validate")
    ELSE LET data == BulkCreateData(item.subcategories) IN
         IF ~DataValid(data) THEN fail("create")
         ELSE IF ~DiseaseNameFree(item.name, 0)
         THEN /\ UNCHANGED <<disease, subcategory, ageGroup, prescribed, seq>>
              /\ req' = goOn(r.count)
              /\ last' = answer(r.count)
         ELSE IF ~MedicinesConnect(data) THEN fail("create")
         ELSE /\ seq.disease <= MaxDisease
              /\ RowsFit(data)
              /\ disease' = disease \cup
                   {[id |-> seq.disease, name |-> item.name]}
              /\ CreateTree(seq.disease, data)
              /\ seq' = [SeqAfterTree(data) EXCEPT !.disease = @ + 1]
              /\ req' = goOn(ResultsPush(r.count))
              /\ last' = answer(ResultsPush(r.count))

\* bulk POST /diseases/complex arrives: the array check and the first turn.
BulkDiseasesComplexArrive(p, body) ==
    /\ ~InFlight(p)
    /\ IF ~Has(body, "array")
       THEN /\ UNCHANGED <<disease, subcategory, ageGroup, prescribed, seq>>
            /\ UNCHANGED req
            /\ last' = Exchange("BulkDiseasesComplex", UndefId, body, 400)
       ELSE IF body.array = <<>>
       THEN /\ UNCHANGED <<disease, subcategory, ageGroup, prescribed, seq>>
            /\ UNCHANGED req
            /\ last' = Exchange("BulkDiseasesComplex", UndefId, body, 201)
       ELSE BulkComplexTurn(p, Arrive(p, "BulkDiseasesComplex", UndefId,
                                      body, "create", NoBefore))
    /\ UNCHANGED <<department, staff, bed, medicine, inventory>>

\* the next turn of the loop, after the await of the turn before.
BulkDiseasesComplexNext(p) ==
    /\ InFlight(p)
    /\ req[p].op = "BulkDiseasesComplex"
    /\ BulkComplexTurn(p, req[p])
    /\ UNCHANGED <<department, staff, bed, medicine, inventory>>

\* ------------------------------------------------- strings of the client
\* The characters of the strings the client computes on.
Chars(s) ==
    CASE s = "" -> <<>>
      [] s = " " -> <<" ">>
      [] s = "Ann" -> <<"A", "n", "n">>
      [] s = "bo" -> <<"b", "o">>
      [] s = "nurse" -> <<"n", "u", "r", "s", "e">>
      [] s = "doctor" -> <<"d", "o", "c", "t", "o", "r">>
      [] s = "ER" -> <<"E", "R">>
      [] s = "N" -> <<"N">>
      [] s = "an" -> <<"a", "n">>
      [] s = "er" -> <<"e", "r">>
      [] s = " n" -> <<" ", "n">>
      [] s = "n " -> <<"n", " ">>
      [] s = "flu" -> <<"f", "l", "u">>
      [] s = "mild" -> <<"m", "i", "l", "d">>
      [] s = "CHILD" -> <<"C", "H", "I", "L", "D">>
      [] s = "0-12" -> <<"0", "-", "1", "2">>
      [] s = "para" -> <<"p", "a", "r", "a">>

\* String.prototype.toLowerCase
LowerOf == [A |-> "a", E |-> "e", N |-> "n", R |-> "r"]

toLowerCaseKeepsCase(cs) == cs

toLowerCase(cs) ==
    [i \in 1 .. Len(cs) |->
        IF cs[i] \in DOMAIN LowerOf THEN LowerOf[cs[i]] ELSE cs[i]]

\* String.prototype.includes
includes(cs, ts) ==
    \E i \in 1 .. (Len(cs) - Len(ts) + 1) :
       SubSeq(cs, i, i + Len(ts) - 1) = ts

\* String.prototype.trim
RECURSIVE trim(_)
trim(cs) ==
    IF cs = <<>> THEN cs
    ELSE IF Head(cs) = " " THEN trim(Tail(cs))
    ELSE IF cs[Len(cs)] = " " THEN trim(SubSeq(cs, 1, Len(cs) - 1))
    ELSE cs

\* ------------------------------------------- the client: StaffManagement
\* No request of the component is under way.
NoCall == [kind |-> "none"]

\* A staff member as the component holds it: the row of the response and the
\* name of its department, when the component found one.
StaffMember(row, deptName) ==
    [id |-> row.id, name |-> row.name, specialization |-> row.specialization,
     departmentId |-> row.departmentId, deptName |-> deptName]

\* Every department of the specification of this component is created with
\* this name.
DepartmentName == "ER"

\* The filter of handleSearch: name, specialization or department name holds
\* the search term, all in lower case.
StaffMatches(m, term) ==
    \/ includes(toLowerCase(Chars(m.name)), toLowerCase(Chars(term)))
    \/ includes(toLowerCase(Chars(m.specialization)),
                toLowerCase(Chars(term)))
    \/ /\ m.deptName # Undef
       /\ m.deptName # ""
       /\ includes(toLowerCase(Chars(m.deptName)), toLowerCase(Chars(term)))

handleSearch(list, term) ==
    IF trim(Chars(term)) = <<>> THEN list
    ELSE LET Test(m) == StaffMatches(m, term) IN SelectSeq(list, Test)

\* The effect on [staff, searchTerm]: it runs after the render that changed
\* one of the two, and before the component handles anything else.
StaffFilterEffect ==
    /\ client.effectDue
    /\ client' = [client EXCEPT
                    !.filteredStaff = handleSearch(client.staff,
                                                   client.searchTerm),
                    !.effectDue = FALSE]
    /\ last' = Silent
    /\ UNCHANGED <<tables, seq, req>>

\* handleSearchChange: setSearchTerm(value).
handleSearchChange(value) ==
    /\ ~client.effectDue
    /\ value # client.searchTerm
    /\ client' = [client EXCEPT !.searchTerm = value, !.effectDue = TRUE]
    /\ last' = Silent
    /\ UNCHANGED <<tables, seq, req>>

\* loadDepartments: GET /departments and setDepartments.
loadDepartments ==
    /\ ~client.effectDue
    /\ client.departments # department
    /\ client' = [client EXCEPT !.departments = department]
    /\ last' = Exchange("GetDepartments", UndefId, NoBody, 200)
    /\ UNCHANGED <<tables, seq, req>>

\* GET /staff: findMany({include: {department: true}}).
GetStaff ==
    LET rows == SeqById(staff) IN
    [i \in 1 .. Len(rows) |->
        StaffMember(rows[i], IF rows[i].departmentId \in department
                             THEN DepartmentName ELSE Undef)]

\* loadStaff up to its await: the GET /staff request and its response.
loadStaffSend ==
    /\ ~client.effectDue
    /\ client.call = NoCall
    /\ client' = [client EXCEPT !.call = [kind |-> "load", data |-> GetStaff]]
    /\ last' = Exchange("GetStaff", UndefId, NoBody, 200)
    /\ UNCHANGED <<tables, seq, req>>

\* loadStaff after its await: setStaff and setFilteredStaff, one render.
loadStaffReceive ==
    /\ ~client.effectDue
    /\ client.call.kind = "load"
    /\ client' = [client EXCEPT !.staff = client.call.data,
                                !.filteredStaff = client.call.data,
                                !.effectDue = TRUE,
                                !.call = NoCall]
    /\ last' = Silent
    /\ UNCHANGED <<tables, seq, req>>

\* department: response.data.departmentId ? departments.find(...) : undefined
FoundDepartment(departmentId) ==
    IF departmentId \in client.departments THEN DepartmentName ELSE Undef

\* handleSubmit up to its await: the two checks of the form, then the POST
\* or the PUT and its response.  editing is the id of editingStaff, 0 when
\* the form is for a new member.  The handler keeps the staff list of the
\* render it was called in.
handleSubmitSend(editing, name, specialization, departmentId) ==
    /\ ~client.effectDue
    /\ client.call = NoCall
    /\ editing # 0 => \E i \in 1 .. Len(client.staff) :
                         client.staff[i].id = editing
    /\ IF \/ specialization # "nurse" /\ Falsy(departmentId)
          \/ specialization = "nurse" /\ ~Falsy(departmentId)
       THEN /\ UNCHANGED <<client, tables, seq, req>>
            /\ last' = Exchange("handleSubmit", editing, NoBody, 0)
       ELSE /\ IF editing # 0
               THEN PutStaff(editing, name, specialization, departmentId,
                             "true")
               ELSE PostStaff(name, specialization, departmentId, "true")
            /\ client' =
                 [client EXCEPT
                    !.call =
                      [kind |-> "submit", editing |-> editing,
                       list |-> client.staff,
                       ok |-> last'.status \in {200, 201},
                       data |-> IF last'.status = 201
                                THEN {Row(staff', seq.staff)}
                                ELSE IF last'.status = 200
                                THEN {Row(staff', editing)}
                                ELSE {}]]

\* handleSubmit after its await: setStaff with the member of the response,
\* or the catch, which leaves the list as it is.
handleSubmitReceive ==
    LET c == client.call
        member == LET row == CHOOSE r \in c.data : TRUE
                  IN  StaffMember(row, FoundDepartment(row.departmentId))
    IN
    /\ ~client.effectDue
    /\ c.kind = "submit"
    /\ client' =
         IF ~c.ok THEN [client EXCEPT !.call = NoCall]
         ELSE [client EXCEPT
                 !.staff =
                   IF c.editing # 0
                   THEN [i \in 1 .. Len(c.list) |->
                           IF c.list[i].id = c.editing THEN member
                           ELSE c.list[i]]
                   ELSE Append(c.list, member),
                 !.effectDue = TRUE,
                 !.call = NoCall]
    /\ last' = Silent
    /\ UNCHANGED <<tables, seq, req>>

\* handleDelete up to its await: DELETE /staff/:id and its response.
handleDeleteStaffSend(id) ==
    /\ ~client.effectDue
    /\ client.call = NoCall
    /\ \E i \in 1 .. Len(client.staff) : client.staff[i].id = id
    /\ DeleteStaff(id)
    /\ client' = [client EXCEPT
                    !.call = [kind |-> "delete", id |-> id,
                              list |-> client.staff,
                              ok |-> last'.status = 200]]

\* handleDelete after its await: setStaff(staff.filter(s => s.id !== id)),
\* or the catch.
handleDeleteStaffReceive ==
    LET c == client.call
        Other(m) == m.id # c.id
    IN
    /\ ~client.effectDue
    /\ c.kind = "delete"
    /\ client' =
         IF ~c.ok THEN [client EXCEPT !.call = NoCall]
         ELSE [client EXCEPT !.staff = SelectSeq(c.list, Other),
                             !.effectDue = TRUE,
                             !.call = NoCall]
    /\ last' = Silent
    /\ UNCHANGED <<tables, seq, req>>

\* ------------------------------------------- client: DiseaseManagement
\* The disease routes of webRouter, which index.ts mounts at /v1/web, the
\* base of the component's requests.
WebRoutes ==
    {<<"GET", "/diseases">>, <<"POST", "/diseases">>,
     <<"PUT", "/diseases/:id">>, <<"DELETE", "/disease/:id">>}

\* A request that matches no route: Express answers 404 and no handler runs.
NotFound(method, path, id) ==
    /\ <<method, path>> \notin WebRoutes
    /\ last' = Exchange("NotFound", id, NoBody, 404)
    /\ UNCHANGED <<tables, seq, req>>

\* loadDiseases up to its await: GET /diseases answers every stored disease;
\* the component's list is modelled by the ids.
loadDiseasesSend ==
    /\ client.call = NoCall
    /\ <<"GET", "/diseases">> \in WebRoutes
    /\ client' = [client EXCEPT
                    !.call = [kind |-> "loadDiseases",
                              data |-> [i \in 1 .. Cardinality(disease) |->
                                          SeqById(disease)[i].id]]]
    /\ last' = Exchange("GetDiseases", UndefId, NoBody, 200)
    /\ UNCHANGED <<tables, seq, req>>

\* loadDiseases after its await: setDiseases(response.data).
loadDiseasesReceive ==
    /\ client.call.kind = "loadDiseases"
    /\ client' = [client EXCEPT !.diseases = client.call.data,
                                !.call = NoCall]
    /\ last' = Silent
    /\ UNCHANGED <<tables, seq, req>>

\* handleDelete of a listed disease, confirmed, up to its await:
\* axios.delete(`${API_BASE_URL}/diseases/${id}`) on the client's connection.
\* status is 0 while the response is not there.
handleDeleteDiseaseSend(id) ==
    /\ client.call = NoCall
    /\ \E i \in 1 .. Len(client.diseases) : client.diseases[i] = id
    /\ IF <<"DELETE", "/diseases/:id">> \in WebRoutes
       THEN DeleteDiseaseDeletePrescribed(1, id)
       ELSE NotFound("DELETE", "/diseases/:id", id)
    /\ client' = [client EXCEPT
                    !.call = [kind |-> "deleteDisease", id |-> id,
                              list |-> client.diseases,
                              status |-> last'.status]]

\* handleDelete after its await: setDiseases(diseases.filter(d => d.id !==
\* id)) when the response is a success; axios throws on every other status
\* and the catch sets the error.
handleDeleteDiseaseReceive ==
    LET c == client.call
        Other(d) == d # c.id
    IN
    /\ c.kind = "deleteDisease"
    /\ c.status # 0
    /\ client' =
         IF c.status = 200
         THEN [client EXCEPT !.diseases = SelectSeq(c.list, Other),
                             !.call = NoCall]
         ELSE [client EXCEPT !.error = TRUE, !.call = NoCall]
    /\ last' = Silent
    /\ UNCHANGED <<tables, seq, req>>

\* The await of a request whose handler takes several steps: the step that
\* answers the request on the client's connection gives the call its status.
Deliver ==
    client' =
      IF client.call.kind \in {"deleteDisease", "save"}
         /\ client.call.status = 0 /\ InFlight(1) /\ ~InFlight(1)'
      THEN [client EXCEPT !.call.status = last'.status]
      ELSE client

\* handleSave up to its first await.  The three checks of the form; the
\* payload with the keys of the form (ageGroups, ageRange) and, per age
\* group, the medicines that have a name, each {name, dosage, notes}; then
\* the PUT when a disease is edited (editing is its id) and the POST when
\* not (editing is 0).
handleSave(form, editing) ==
    LET Blank(text) == trim(Chars(text)) = <<>>
        Named(med) == ~Blank(med.name)
        payload ==
          [name |-> form.name,
           subcategories |->
             [i \in 1 .. Len(form.subcategories) |->
                [name |-> form.subcategories[i].name,
                 ageGroups |->
                   [j \in 1 .. Len(form.subcategories[i].ageGroups) |->
                      LET age == form.subcategories[i].ageGroups[j] IN
                      [group |-> age.group, ageRange |-> age.ageRange,
                       medicines |-> SelectSeq(age.medicines, Named)]]]]]
    IN
    /\ client.call = NoCall
    /\ editing # 0 => \E i \in 1 .. Len(client.diseases) :
                         client.diseases[i] = editing
    /\ IF \/ Blank(form.name)
          \/ \E i \in 1 .. Len(form.subcategories) :
               Blank(form.subcategories[i].name)
          \/ \E i \in 1 .. Len(form.subcategories) :
               \E j \in 1 .. Len(form.subcategories[i].ageGroups) :
                  \/ Blank(form.subcategories[i].ageGroups[j].group)
                  \/ Blank(form.subcategories[i].ageGroups[j].ageRange)
       THEN /\ client' = [client EXCEPT !.error = TRUE]
            /\ last' = Exchange("handleSave", editing, form, 0)
            /\ UNCHANGED <<tables, seq, req>>
       ELSE /\ IF editing # 0
               THEN IF <<"PUT", "/diseases/:id">> \in WebRoutes
                    THEN PutDiseaseDeletePrescribed(1, editing, payload)
                    ELSE NotFound("PUT", "/diseases/:id", editing)
               ELSE IF <<"POST", "/diseases">> \in WebRoutes
                    THEN PostDisease(payload)
                    ELSE NotFound("POST", "/diseases", 0)
            /\ client' = [client EXCEPT
                            !.error = FALSE,
                            !.call = [kind |-> "save", editing |-> editing,
                                      form |-> form, payload |-> payload,
                                      status |-> last'.status]]

\* handleSave after its first await: on a success it calls loadDiseases,
\* which sends its GET; on any other status the catch sets the error.
handleSaveReceive ==
    LET c == client.call IN
    /\ c.kind = "save"
    /\ c.status # 0
    /\ client' =
         IF c.status \in {200, 201}
         THEN [client EXCEPT
                 !.call = [kind |-> "loadDiseases",
                           data |-> [i \in 1 .. Cardinality(disease) |->
                                       SeqById(disease)[i].id]]]
         ELSE [client EXCEPT !.error = TRUE, !.call = NoCall]
    /\ last' = Silent
    /\ UNCHANGED <<tables, seq, req>>

\* ------------------------------------------------------- client: Home
\* The timeout of scheduleNextPrediction, 60 * 60 * 1000 ms, in ticks of
\* the clock.
HourTicks == 2

\* The dashboard before its first effects.  predictionInterval is the state
\* of the component (0 is null, a timeout is its id), rendered the value of
\* it in the render that is committed, the one the handlers of the page and
\* the callbacks made in it have captured.  timers are the timeouts that
\* are pending, each with the time it is due and with the predictionInterval
\* its scheduleNextPrediction has captured.
HomeInit ==
    [phase |-> "initial", predictionInterval |-> 0, rendered |-> 0,
     cleanup |-> 0, timers |-> {}, nextId |-> 1, now |-> 0, fetches |-> 0,
     lastManual |-> 0]

\* A step of the dashboard.
HomeStep(home) ==
    /\ client' = [client EXCEPT !.home = home]
    /\ last' = Silent
    /\ UNCHANGED <<tables, seq, req>>

\* scheduleNextPrediction of a render whose predictionInterval is captured:
\* clearTimeout of it when it is not null, a new timeout one hour from now
\* whose callback calls this same scheduleNextPrediction, and
\* setPredictionInterval(timeout).
scheduleNextPrediction(h, captured) ==
    [h EXCEPT
       !.timers = {t \in @ : captured = 0 \/ t.id # captured}
                  \cup {[id |-> h.nextId, due |-> h.now + HourTicks,
                         captured |-> captured]},
       !.nextId = @ + 1,
       !.predictionInterval = h.nextId]

\* fetchPredictions, counted.
fetchPredictions(h) == [h EXCEPT !.fetches = @ + 1]

\* The effect of the mount: fetchPredictions() and scheduleNextPrediction()
\* of the first render, and the cleanup it returns, which has captured the
\* predictionInterval of the first render as well.
HomeMount ==
    LET h == client.home IN
    /\ h.phase = "initial"
    /\ HomeStep([scheduleNextPrediction(fetchPredictions(h), h.rendered)
                   EXCEPT !.phase = "mounted", !.cleanup = h.rendered])

\* A render is committed after a state update: the handlers of the page are
\* now those of the new predictionInterval.
HomeRender ==
    LET h == client.home IN
    /\ h.phase = "mounted"
    /\ h.rendered # h.predictionInterval
    /\ HomeStep([h EXCEPT !.rendered = h.predictionInterval])

\* manualFetchPredictions of the committed render, on a click.
manualFetchPredictions ==
    LET h == client.home IN
    /\ h.phase = "mounted"
    /\ h.nextId <= MaxTimer
    /\ HomeStep([scheduleNextPrediction(fetchPredictions(h), h.rendered)
                   EXCEPT !.lastManual = h.now])

\* A timeout is due: its callback calls fetchPredictions() and the
\* scheduleNextPrediction that made it.
TimeoutFires ==
    LET h == client.home IN
    \E t \in h.timers :
       /\ t.due = h.now
       /\ h.nextId <= MaxTimer
       /\ HomeStep(scheduleNextPrediction(
                     fetchPredictions([h EXCEPT !.timers = @ \ {t}]),
                     t.captured))

\* The unmount runs the cleanup of the mount effect: clearTimeout of the
\* predictionInterval it has captured, when that is not null.
HomeUnmount ==
    LET h == client.home IN
    /\ h.phase = "mounted"
    /\ HomeStep([h EXCEPT
                   !.phase = "unmounted",
                   !.timers = {t \in @ : h.cleanup = 0 \/ t.id # h.cleanup}])

\* The clock goes on when no timeout is due and no render is to be
\* committed.
HomeTick ==
    LET h == client.home IN
    /\ h.phase # "initial"
    /\ h.now < MaxTime
    /\ \A t \in h.timers : t.due # h.now
    /\ h.phase = "mounted" => h.rendered = h.predictionInterval
    /\ HomeStep([h EXCEPT !.now = @ + 1])

\* ---------------------------------------- client: InventoryManagement
\* 30 * 24 * 60 * 60 * 1000 ms, in days.
ThirtyDays == 3

\* new Date(expiryDate).getTime() in days: the day of the ISO dates of the
\* items, NaN for a text that is no date.
DateTime(text) ==
    CASE text = "2025-01-01" -> 1
      [] text = "2025-01-02" -> 2
      [] text = "2025-01-03" -> 3
      [] text = "2025-01-04" -> 4
      [] text = "2025-01-05" -> 5
      [] text = "2025-01-06" -> 6
      [] text = "2025-01-07" -> 7
      [] text = "2025-01-08" -> 8
      [] text = "n/a" -> NaN

\* isExpiringSoon: false without a date; expiry <= thirtyDaysFromNow, which
\* is false for an invalid date.
isExpiringSoonBeforeTheDay(item, today) ==
    /\ Has(item, "expiryDate") /\ item.expiryDate # ""
    /\ DateTime(item.expiryDate) # NaN
    /\ DateTime(item.expiryDate) < today + ThirtyDays

isExpiringSoon(item, today) ==
    /\ Has(item, "expiryDate") /\ item.expiryDate # ""
    /\ DateTime(item.expiryDate) # NaN
    /\ DateTime(item.expiryDate) <= today + ThirtyDays

\* isExpired: false without a date; expiry < today.
isExpired(item, today) ==
    /\ Has(item, "expiryDate") /\ item.expiryDate # ""
    /\ DateTime(item.expiryDate) # NaN
    /\ DateTime(item.expiryDate) < today

\* getStatusInfo: the status of the item.  isExpired and isExpiringSoon
\* each read the clock with new Date(): today and, not before it, later.
getStatusInfo(item, today, later) ==
    IF isExpired(item, today) THEN "Expired"
    ELSE IF isExpiringSoon(item, later) THEN "Expiring Soon"
    ELSE IF item.availableQty <= 10 THEN "Low Stock"
    ELSE "Good"

\* A row of the inventory table is rendered.
ShowStatus(item, today, later) ==
    /\ client' = [client EXCEPT
                    !.shown = [status |-> getStatusInfo(item, today, later),
                               item |-> item, today |-> today,
                               later |-> later]]
    /\ last' = Silent
    /\ UNCHANGED <<tables, seq, req>>

\* ------------------------------------------------------------------- init
\* The client's components as they are mounted, before any data is loaded.
ClientInit ==
    [staff |-> <<>>, filteredStaff |-> <<>>, searchTerm |-> "",
     effectDue |-> FALSE, departments |-> {}, call |-> [kind |-> "none"],
     diseases |-> <<>>, error |-> FALSE, home |-> HomeInit,
     shown |-> [status |-> "none"]]

Init ==
    /\ department = {}
    /\ staff = {}
    /\ bed = {}
    /\ medicine = {}
    /\ inventory = {}
    /\ disease = {}
    /\ subcategory = {}
    /\ ageGroup = {}
    /\ prescribed = {}
    /\ seq = [department |-> 1, staff |-> 1, bed |-> 1, medicine |-> 1,
              inventory |-> 1, disease |-> 1, subcategory |-> 1,
              ageGroup |-> 1, prescribed |-> 1]
    /\ req = [p \in Procs |-> Idle]
    /\ last = Silent
    /\ client = ClientInit

\* ------------------------------------------------------- request bodies
Dose(m, dosage) == [medicineId |-> m, dosage |-> dosage]

\* Three payload trees: one subcategory with one age group and one medicine
\* without notes; two subcategories, the second with notes; and another
\* tree of one subcategory.
TreeA ==
    <<[name |-> "mild",
       age_groups |-> <<[group |-> "CHILD", age_range |-> "0-12",
                         medicines |-> <<Dose(1, "5ml")>>]>>]>>
TreeB ==
    <<[name |-> "acute",
       age_groups |-> <<[group |-> "ADULT", age_range |-> "18-60",
                         medicines |-> <<Dose(2, "10ml")>>]>>],
      [name |-> "chronic",
       age_groups |-> <<[group |-> "OLDER", age_range |-> "60+",
                         medicines |-> <<[medicineId |-> 1,
                                          dosage |-> "1 tab",
                                          notes |-> "after meals"]>>]>>]>>
TreeC ==
    <<[name |-> "severe",
       age_groups |-> <<[group |-> "TEENAGER", age_range |-> "13-17",
                         medicines |-> <<[medicineId |-> 1,
                                          dosage |-> "2 tab",
                                          notes |-> "at night"]>>]>>]>>

DiseaseNames == {"flu", "cold"}

\* The bodies of POST /diseases and PUT /diseases/:id: two trees under
\* either name, and bodies without subcategories, without name, and with
\* an empty subcategories array.
DiseaseBodies ==
    {[name |-> n, subcategories |-> t] : n \in DiseaseNames,
                                         t \in {TreeA, TreeB}}
    \cup {[name |-> "flu"], [subcategories |-> TreeA],
          [name |-> "cold", subcategories |-> <<>>]}

\* The bodies of the requests that race: two trees of one subcategory.
RaceBodies ==
    {[name |-> "flu", subcategories |-> TreeA],
     [name |-> "cold", subcategories |-> TreeC]}

MedicineBodies ==
    {Full, [name |-> "x", form |-> "tablet", strength |-> "500"]}

InventoryBodies ==
    {[medicineId |-> m, availableQty |-> 5] : m \in 1 .. MaxMedicine}
    \cup {[availableQty |-> 5]}

BulkBodies ==
    {NoBody,
     [array |-> <<[name |-> "flu"], [name |-> "flu"]>>],
     [array |-> <<[name |-> "cold"], [other |-> "x"]>>]}

BulkComplexBodies ==
    {NoBody,
     [array |-> <<>>],
     [array |-> <<[name |-> "flu", subcategories |-> TreeA],
                  [name |-> "flu", subcategories |-> TreeA]>>],
     [array |-> <<[name |-> "cold", subcategories |-> TreeA],
                  [name |-> "flu"]>>]}

\* ----------------- two connections on one disease aggregate (C10)
Next ==
    /\ UNCHANGED client
    /\ \/ PostMedicine(Full)
       \/ \E body \in RaceBodies :
             seq.disease <= MaxRaceDisease /\ PostDisease(body)
       \/ \E p \in Procs, d \in 1 .. MaxRaceDisease, body \in RaceBodies :
             PutDiseaseDeletePrescribed(p, d, body)
       \/ \E p \in Procs : PutDiseaseDeleteAgeGroups(p)
       \/ \E p \in Procs : PutDiseaseDeleteSubcategories(p)
       \/ \E p \in Procs : PutDiseaseUpdate(p)
       \/ \E p \in Procs, d \in 1 .. MaxRaceDisease :
             DeleteDiseaseDeletePrescribed(p, d)
       \/ \E p \in Procs : DeleteDiseaseDeleteAgeGroups(p)
       \/ \E p \in Procs : DeleteDiseaseDeleteSubcategories(p)
       \/ \E p \in Procs : DeleteDiseaseDelete(p)

Spec == Init /\ [][Next]_vars

\* ---- the medicine and inventory routes (C3, C9): connection 1 deletes
\* medicines while connection 2 replaces the tree of a disease, and the
\* requests of one database call run between their steps.
NextMedicine ==
    /\ UNCHANGED client
    /\ \/ PostMedicine(Full)
       \/ \E body \in InventoryBodies : PostInventory(body)
       \/ \E id \in 1 .. MaxInventory : DeleteInventory(id)
       \/ \E m \in 1 .. MaxMedicine : DeleteMedicineCountPrescriptions(1, m)
       \/ DeleteMedicineCountInventory(1)
       \/ DeleteMedicineDelete(1)
       \/ seq.disease <= MaxRaceDisease
          /\ PostDisease([name |-> "flu", subcategories |-> TreeA])
       \/ \E d \in 1 .. MaxRaceDisease :
             PutDiseaseDeletePrescribed(2, d, [name |-> "flu",
                                               subcategories |-> TreeA])
       \/ PutDiseaseDeleteAgeGroups(2)
       \/ PutDiseaseDeleteSubcategories(2)
       \/ PutDiseaseUpdate(2)

SpecMedicine == Init /\ [][NextMedicine]_vars

\* ------------- one request at a time on the disease routes (C4 .. C7)
NextSeq ==
    /\ UNCHANGED client
    /\ \/ \E body \in MedicineBodies : req[1] = Idle /\ PostMedicine(body)
       \/ \E body \in DiseaseBodies : req[1] = Idle /\ PostDisease(body)
       \/ \E d \in 1 .. MaxDisease, body \in DiseaseBodies :
             PutDiseaseDeletePrescribed(1, d, body)
       \/ PutDiseaseDeleteAgeGroups(1)
       \/ PutDiseaseDeleteSubcategories(1)
       \/ PutDiseaseUpdate(1)
       \/ \E d \in 1 .. MaxDisease : DeleteDiseaseDeletePrescribed(1, d)
       \/ DeleteDiseaseDeleteAgeGroups(1)
       \/ DeleteDiseaseDeleteSubcategories(1)
       \/ DeleteDiseaseDelete(1)
       \/ \E body \in BulkBodies : req[1] = Idle /\ BulkDiseases(body)
       \/ \E body \in BulkComplexBodies : BulkDiseasesComplexArrive(1, body)
       \/ BulkDiseasesComplexNext(1)

SpecSeq == Init /\ [][NextSeq]_vars

\* ---------------------------------------------- the staff routes (C1, C2)
DeptIdInputs == {UndefId, NullId} \cup (0 .. MaxDept)

NextStaff ==
    /\ UNCHANGED client
    /\ \/ \E name \in {Undef, "n"} : PostDepartment(name)
       \/ \E name \in {Undef, "n"}, sp \in Specializations \cup {Undef},
             d \in DeptIdInputs : PostStaff(name, sp, d, Undef)
       \/ \E id \in 1 .. MaxStaff, sp \in Specializations \cup {Undef},
             d \in DeptIdInputs : PutStaff(id, "n", sp, d, Undef)
       \/ \E id \in 1 .. MaxStaff : DeleteStaff(id)

SpecStaff == Init /\ [][NextStaff]_vars

\* ------------------------------------------------- the bed routes (C8)
\* "free" is the lower-case spelling the first version of the route stored:
\* no value of the enum.
BedStatusInputs == {Undef, "FREE", "OCCUPIED", "MAINTENANCE", "free"}

NextBed ==
    /\ UNCHANGED client
    /\ \/ \E name \in {Undef, "n"} : PostDepartment(name)
       \/ \E type \in {Undef, "ICU"}, st \in BedStatusInputs,
             d \in DeptIdInputs : PostBed(type, st, d)
       \/ \E id \in 1 .. MaxBed, st \in BedStatusInputs, d \in DeptIdInputs :
             PutBed(id, Undef, st, d)
       \/ \E id \in 1 .. MaxBed : DeleteBed(id)

SpecBed == Init /\ [][NextBed]_vars


\* ------------------------- the client's staff list and its search (C11)
StaffSearchTerms == {"", " ", "N", "er", " n"}

NextStaffClient ==
    \/ department = {} /\ PostDepartment(DepartmentName) /\ UNCHANGED client
    \/ loadDepartments
    \/ loadStaffSend
    \/ loadStaffReceive
    \/ \E value \in StaffSearchTerms : handleSearchChange(value)
    \/ StaffFilterEffect
    \/ \E editing \in 0 .. MaxStaff, name \in {"Ann", "bo"},
          sp \in Specializations, d \in {UndefId, 1} :
          handleSubmitSend(editing, name, sp, d)
    \/ handleSubmitReceive
    \/ \E id \in 1 .. MaxStaff : handleDeleteStaffSend(id)
    \/ handleDeleteStaffReceive

SpecStaffClient == Init /\ [][NextStaffClient]_vars

\* POST /diseases alone, over payloads that lack one thing each: a field of
\* a medicine item, of an age group, of a subcategory or of the body.
PostBodies ==
    LET items ==
          {Dose(1, "5ml"), Dose(0, "5ml"), [dosage |-> "5ml"],
           [medicineId |-> 1], [medicineId |-> 1, dosage |-> ""]}
          \cup {[medicineIdString |-> t, dosage |-> "5ml"] :
                  t \in {"1", "0", "-7", "1x", "abc", ""}}
        ags ==
          {[group |-> "CHILD", age_range |-> "0-12", medicines |-> <<m>>] :
             m \in items}
          \cup {[age_range |-> "0-12", medicines |-> <<Dose(1, "5ml")>>],
                [group |-> "CHILD", medicines |-> <<Dose(1, "5ml")>>],
                [group |-> "CHILD", age_range |-> "0-12"],
                [group |-> "CHILD", age_range |-> "0-12",
                 medicines |-> <<>>]}
        scs ==
          {[name |-> "mild", age_groups |-> <<ag>>] : ag \in ags}
          \cup {[age_groups |-> TreeA[1].age_groups], [name |-> "mild"],
                [name |-> "mild", age_groups |-> <<>>]}
    IN  {[name |-> n, subcategories |-> <<sc>>] :
           n \in DiseaseNames, sc \in scs}
        \cup {[name |-> "cold", subcategories |-> TreeC \o <<sc>>] :
                sc \in scs}
        \cup {[name |-> "flu"], [subcategories |-> TreeA],
              [name |-> "", subcategories |-> TreeA],
              [name |-> "flu", subcategories |-> <<>>]}

\* The forms of the disease modal: one subcategory with one age group, the
\* fields filled or left blank, and medicines with and without a name.
DiseaseForms ==
    {[name |-> n,
      subcategories |->
        <<[name |-> sn,
           ageGroups |-> <<[group |-> g, ageRange |-> "0-12",
                            medicines |-> meds]>>]>>] :
       n \in {"flu", " "}, sn \in {"mild", ""}, g \in {"CHILD", ""},
       meds \in {<<[name |-> "para", dosage |-> "5ml", notes |-> ""]>>,
                 <<[name |-> "", dosage |-> "", notes |-> ""]>>,
                 <<[name |-> " ", dosage |-> "5ml", notes |-> ""],
                   [name |-> "para", dosage |-> "5ml", notes |-> ""]>>}}

\* The disease component on connection 1, next to direct requests to the
\* API on connection 2.
NextDiseaseClient ==
    \/ PostMedicine(Full) /\ UNCHANGED client
    \/ \E body \in RaceBodies : PostDisease(body) /\ UNCHANGED client
    \/ \E d \in 1 .. MaxDisease :
         DeleteDiseaseDeletePrescribed(2, d) /\ UNCHANGED client
    \/ \E p \in Procs : DeleteDiseaseDeleteAgeGroups(p) /\ Deliver
    \/ \E p \in Procs : DeleteDiseaseDeleteSubcategories(p) /\ Deliver
    \/ \E p \in Procs : DeleteDiseaseDelete(p) /\ Deliver
    \/ \E p \in Procs : PutDiseaseDeleteAgeGroups(p) /\ Deliver
    \/ \E p \in Procs : PutDiseaseDeleteSubcategories(p) /\ Deliver
    \/ \E p \in Procs : PutDiseaseUpdate(p) /\ Deliver
    \/ loadDiseasesSend
    \/ loadDiseasesReceive
    \/ \E id \in 1 .. MaxDisease : handleDeleteDiseaseSend(id)
    \/ handleDeleteDiseaseReceive
    \/ \E form \in DiseaseForms, editing \in 0 .. MaxDisease :
         handleSave(form, editing)
    \/ handleSaveReceive

SpecDiseaseClient == Init /\ [][NextDiseaseClient]_vars

\* bulk POST /diseases/complex on connection 1, next to POST /medicines and
\* POST /diseases.  The bodies: no array, an empty one, a second item whose
\* name the first has taken, a second item without subcategories, a second
\* item whose medicine may not be stored, a subcategory without age groups,
\* and one item with one age group under each spelling of the group.
GroupInputs ==
    {"Child", "child", "CHILD", "Teenager", "teenager", "TEENAGER", "Adult",
     "adult", "ADULT", "Older", "older", "OLDER", "infant", "", "constructor",
     Undef}

GroupBody(group) ==
    LET ag == IF group = Undef
              THEN [age_range |-> "0-12", medicines |-> <<Dose(1, "5ml")>>]
              ELSE [group |-> group, age_range |-> "0-12",
                    medicines |-> <<Dose(1, "5ml")>>]
    IN  [array |-> <<[name |-> "cold",
                      subcategories |->
                        <<[name |-> "mild", age_groups |-> <<ag>>]>>]>>]

BulkSkipBodies ==
    {GroupBody(group) : group \in GroupInputs} \cup
    {NoBody,
     [array |-> <<>>],
     [array |-> <<[name |-> "flu", subcategories |-> TreeA],
                  [name |-> "cold", subcategories |-> TreeA]>>],
     [array |-> <<[name |-> "cold", subcategories |-> TreeA],
                  [name |-> "cold", subcategories |-> TreeC]>>],
     [array |-> <<[name |-> "cold", subcategories |-> TreeA],
                  [name |-> "flu"]>>],
     [array |-> <<[name |-> "flu", subcategories |-> TreeA],
                  [name |-> "cold",
                   subcategories |->
                     <<[name |-> "mild",
                        age_groups |->
                          <<[group |-> "Child", age_range |-> "0-12",
                             medicines |-> <<Dose(2, "5ml")>>]>>]>>]>>],
     [array |-> <<[name |-> "cold", subcategories |-> <<[name |-> "mild"]>>]>>]}

NextBulk ==
    /\ UNCHANGED client
    /\ \/ PostMedicine(Full)
       \/ PostDisease([name |-> "flu", subcategories |-> TreeC])
       \/ \E body \in BulkSkipBodies : BulkDiseasesComplexArrive(1, body)
       \/ BulkDiseasesComplexNext(1)

SpecBulk == Init /\ [][NextBulk]_vars

\* The routes of one medicine on one connection.  The :id of the path is
\* a text; the bodies of the PUT are the full one, one with another name,
\* one without unit and one with an empty form.
MedicineIdTexts == {"1", "2", "0", "-7", "1x", "abc"}

NextMedicineRoutes ==
    /\ UNCHANGED client
    /\ \/ req[1] = Idle /\ PostMedicine(Full)
       \/ \E body \in InventoryBodies : PostInventory(body)
       \/ \E t \in MedicineIdTexts : GetMedicine(t)
       \/ \E t \in MedicineIdTexts,
             body \in MedicineBodies \cup
                      {[Full EXCEPT !.name = "y"], [Full EXCEPT !.form = ""]} :
             PutMedicine(t, body)
       \/ \E t \in MedicineIdTexts : DeleteMedicine(1, t)
       \/ DeleteMedicineCountInventory(1)
       \/ DeleteMedicineDelete(1)

SpecMedicineRoutes == Init /\ [][NextMedicineRoutes]_vars

NextHome ==
    \/ HomeMount
    \/ HomeRender
    \/ manualFetchPredictions
    \/ TimeoutFires
    \/ HomeUnmount
    \/ HomeTick

SpecHome == Init /\ [][NextHome]_vars

\* The rows of the inventory table: quantities around 10, with each expiry
\* date, with none, with an empty one and with one that is no date.
NextInventoryStatus ==
    \E qty \in {0, 10, 11},
       date \in {"2025-01-01", "2025-01-02", "2025-01-03", "2025-01-04",
                 "2025-01-05", "2025-01-06", "2025-01-07", "2025-01-08",
                 "n/a", "", Undef},
       today \in 2 .. MaxToday, elapsed \in {0, 1} :
       ShowStatus(IF date = Undef THEN [availableQty |-> qty]
                  ELSE [availableQty |-> qty, expiryDate |-> date],
                  today, today + elapsed)

SpecInventoryStatus == Init /\ [][NextInventoryStatus]_vars

NextPost ==
    /\ UNCHANGED client
    /\ \/ PostMedicine(Full)
       \/ \E body \in PostBodies : PostDisease(body)

SpecPost == Init /\ [][NextPost]_vars

\* ----------------------------------------------------------------- claims
\* C1: every stored nurse has no department and every other stored staff
\* member has one.
C1_NurseDepartmentExclusive ==
    \A s \in staff :
        (s.specialization = "nurse") <=> (s.departmentId = NullId)

\* C2: a POST /staff that breaks the nurse/department rule answers 400 and
\* leaves the stored staff as it was.
C2_PostStaffRuleRejected ==
    [][(/\ last'.op = "PostStaff"
        /\ \/ last'.body.specialization # "nurse"
              /\ last'.body.departmentId \in {UndefId, NullId}
           \/ last'.body.specialization = "nurse"
              /\ last'.body.departmentId \notin {UndefId, NullId})
       => (last'.status = 400 /\ staff' = staff)]_vars

C2_Witness ==
    /\ last.op = "PostStaff"
    /\ last.status = 400
    /\ last.body.specialization = "nurse"
    /\ last.body.departmentId \in department
    /\ last.body.name # Undef
    /\ staff # {}

\* C3: a DELETE /medicines/:id of a medicine that prescriptions or inventory
\* records name answers 400 and deletes nothing.  The medicine that is named
\* when the answer is given is still stored and the answer is 400; a
\* medicine that was prescribed when the request arrived is answered 400;
\* and the step that answers 400 leaves the medicines, the prescriptions and
\* the inventory as they were.
C3_ReferencedMedicineKept ==
    /\ [](last.op = "DeleteMedicine"
          => /\ (PrescriptionsOf(last.id) # {} \/ InventoryOf(last.id) # {})
                => (last.status = 400 /\ last.id \in Ids(medicine))
             /\ last.before.prescribed # {} => last.status = 400)
    /\ [][(last'.op = "DeleteMedicine" /\ last'.status = 400)
          => UNCHANGED <<medicine, prescribed, inventory>>]_vars

C3_Witness ==
    /\ last.op = "DeleteMedicine"
    /\ last.status = 400
    /\ last.at = "countInventory"
    /\ InventoryOf(last.id) # {}
    /\ last.id \in Ids(medicine)
    /\ \E m \in Ids(medicine) : PrescriptionsOf(m) # {}

\* C4: no two stored diseases have the same name.
C4_DiseaseNamesUnique ==
    \A a \in disease : \A b \in disease : a.name = b.name => a.id = b.id

C4_Witness ==
    /\ last.op = "PostDisease"
    /\ last.status = 409
    /\ Cardinality(disease) = 2
    /\ \E d \in disease : d.name = last.body.name

\* C5: a PUT /diseases/:id that answers with an error leaves the stored tree
\* of the disease as it was before the request.
C5_PutErrorKeepsTree ==
    (last.op = "PutDisease" /\ last.status # 200)
    => StoredTree(last.id) = last.before.tree

NoOrphans ==
    /\ \A sc \in subcategory : sc.diseaseId \in Ids(disease)
    /\ \A ag \in ageGroup : ag.subcategoryId \in Ids(subcategory)
    /\ \A pm \in prescribed : pm.ageGroupId \in Ids(ageGroup)

C7_DeleteRemovesAggregate ==
    /\ NoOrphans
    /\ (last.op = "DeleteDisease" /\ last.before.exists)
       => /\ last.status = 200
          /\ last.id \notin Ids(disease)
          /\ SubcategoriesOf(last.id) = {}

C7_Witness ==
    /\ last.op = "DeleteDisease"
    /\ last.status = 200
    /\ Len(last.before.tree) = 2
    /\ disease # {}
    /\ subcategory # {}

\* C8: every stored bed has a status of the enum and the department it
\* names exists; a POST /beds without type or without departmentId answers
\* 400 and stores no bed.
C8_BedsWellFormed ==
    /\ [](\A b \in bed : b.status \in {"FREE", "OCCUPIED", "MAINTENANCE"}
                         /\ b.departmentId \in department)
    /\ [][(/\ last'.op = "PostBed"
           /\ \/ last'.body.type = Undef
              \/ last'.body.departmentId \in {UndefId, NullId})
          => (last'.status = 400 /\ bed' = bed)]_vars

C8_Witness ==
    /\ last.op = "PutBed"
    /\ last.status = 200
    /\ last.body.status # Undef
    /\ last.body.departmentId # UndefId
    /\ Cardinality(bed) = 2
    /\ \E b \in bed : b.id = last.id /\ b.status = "MAINTENANCE"
                      /\ b.departmentId = 2

\* C9: no inventory record and no prescribed medicine names a medicine that
\* is not stored, whatever the order of the steps of a DELETE
\* /medicines/:id and of the requests that run between them.
C9_NoReferenceToDeletedMedicine ==
    /\ \A iv \in inventory : iv.medicineId \in Ids(medicine)
    /\ \A pm \in prescribed : pm.medicineId \in Ids(medicine)

\* The two counts found nothing, a request in between stored a reference,
\* and the delete was refused.
C9_Witness ==
    /\ last.op = "DeleteMedicine"
    /\ last.at = "delete"
    /\ last.status = 400
    /\ last.before.prescribed = {} /\ last.before.inventory = {}
    /\ (PrescriptionsOf(last.id) # {} \/ InventoryOf(last.id) # {})

\* C10: when two PUT /diseases/:id of one disease overlap and both answer
\* 200, the stored tree is the tree of one of the two payloads.
C10_ConcurrentPutsOnePayload ==
    (last.op = "PutDisease" /\ last.status = 200 /\ last.peers # {})
    => StoredTree(last.id)
         \in {CreateData(last.body.subcategories)} \cup last.peers

\* The members of a list, and the two readings of the search of C11: a term
\* of spaces only, and a text that holds the term at some position, letter
\* by letter without regard to case.
Members(list) == {list[i] : i \in 1 .. Len(list)}

BlankTerm(term) == \A i \in 1 .. Len(Chars(term)) : Chars(term)[i] = " "

SameLetter(a, b) ==
    \/ a = b
    \/ a \in DOMAIN LowerOf /\ LowerOf[a] = b
    \/ b \in DOMAIN LowerOf /\ LowerOf[b] = a

HoldsTerm(text, term) ==
    \E at \in 0 .. (Len(Chars(text)) - Len(Chars(term))) :
       \A k \in 1 .. Len(Chars(term)) :
          SameLetter(Chars(text)[at + k], Chars(term)[k])

MemberHoldsTerm(m, term) ==
    \/ HoldsTerm(m.name, term)
    \/ HoldsTerm(m.specialization, term)
    \/ m.deptName # Undef /\ HoldsTerm(m.deptName, term)

FilteredAsSearched ==
    IF BlankTerm(client.searchTerm)
    THEN client.filteredStaff = client.staff
    ELSE /\ Members(client.filteredStaff) =
              {m \in Members(client.staff) :
                 MemberHoldsTerm(m, client.searchTerm)}
         /\ Len(client.filteredStaff) =
              Cardinality({i \in 1 .. Len(client.staff) :
                 MemberHoldsTerm(client.staff[i], client.searchTerm)})

\* C11 as it is stated: once the filter effect has run, filteredStaff is the
\* whole staff list for a blank search term and otherwise exactly the
\* members whose name, specialization or department name holds the term
\* without regard to case; and filteredStaff is a subset of staff in every
\* state, also right after a create, an update or a delete changed staff.
C11_SearchFilters ==
    /\ ~client.effectDue => FilteredAsSearched
    /\ Members(client.filteredStaff) \subseteq Members(client.staff)

\* C11, amended: once the filter effect has run for the staff list and the
\* search term of the moment, filteredStaff is the whole staff list for a
\* blank search term and otherwise exactly the members whose name,
\* specialization or department name holds the term without regard to
\* case, and so a subset of staff.
C11_SearchFiltersOnceEffectRan ==
    ~client.effectDue
    => /\ FilteredAsSearched
       /\ Members(client.filteredStaff) \subseteq Members(client.staff)

C11_Witness ==
    /\ ~client.effectDue
    /\ client.searchTerm = "er"
    /\ Len(client.staff) = 2
    /\ Len(client.filteredStaff) = 1
    /\ client.filteredStaff[1].deptName = "ER"
\* ---------------------------------------------------------------- C12
\* What the claim lists: no name, no or an empty subcategories array, a
\* subcategory without name or without age groups, an age group without
\* group, age_range or medicines, a medicine without medicineId or dosage
\* or with a string medicineId that is not a number greater than 0.
PositiveNumbers == {"1", "2"}

MedicineLacks(m) ==
    \/ ~Has(m, "dosage") \/ m.dosage = ""
    \/ ~Has(m, "medicineId") /\ ~Has(m, "medicineIdString")
    \/ Has(m, "medicineId") /\ m.medicineId = 0
    \/ Has(m, "medicineIdString") /\ m.medicineIdString \notin PositiveNumbers

AgeGroupLacks(ag) ==
    \/ ~Has(ag, "group") \/ ag.group = ""
    \/ ~Has(ag, "age_range") \/ ag.age_range = ""
    \/ ~Has(ag, "medicines") \/ ag.medicines = <<>>
    \/ \E k \in 1 .. Len(ag.medicines) : MedicineLacks(ag.medicines[k])

SubcategoryLacks(sc) ==
    \/ ~Has(sc, "name") \/ sc.name = ""
    \/ ~Has(sc, "age_groups") \/ sc.age_groups = <<>>
    \/ \E j \in 1 .. Len(sc.age_groups) : AgeGroupLacks(sc.age_groups[j])

PayloadLacks(body) ==
    \/ ~Has(body, "name") \/ body.name = ""
    \/ ~Has(body, "subcategories") \/ body.subcategories = <<>>
    \/ \E i \in 1 .. Len(body.subcategories) :
         SubcategoryLacks(body.subcategories[i])

\* C12: POST /diseases answers 400 and stores nothing for every payload
\* that lacks the name, the subcategories, a subcategory's name or age
\* groups, an age group's group, age_range or medicines, a medicine's
\* medicineId or dosage, or whose string medicineId is not a number
\* greater than 0.
C12_PostRejectsIncomplete ==
    [][(last'.op = "PostDisease" /\ PayloadLacks(last'.body))
          => (last'.status = 400 /\ UNCHANGED tables)]_vars

\* ---------------------------------------------------------------- C13
\* C13: a POST /diseases whose payload passes the validation and whose name
\* is that of a stored disease answers 409 and creates nothing: no disease,
\* no subcategory, no age group and no prescribed medicine.
C13_DuplicateNameConflict ==
    [][(/\ last'.op = "PostDisease"
        /\ validateDiseasePayload(last'.body)
        /\ \E d \in disease : d.name = last'.body.name)
          => (/\ last'.status = 409
              /\ UNCHANGED <<disease, subcategory, ageGroup, prescribed>>)]_vars

\* A valid payload of two subcategories was refused for its name while the
\* medicine it prescribes is stored.
C13_Witness ==
    /\ last.op = "PostDisease" /\ last.status = 409
    /\ validateDiseasePayload(last.body)
    /\ Len(last.body.subcategories) = 2
    /\ MedicinesConnect(CreateData(last.body.subcategories))
    /\ Cardinality({d \in disease : d.name = last.body.name}) = 1
    /\ Cardinality(subcategory) = 1

\* ---------------------------------------------------------------- C14
\* C14: whenever no disease request is under way, every stored disease has
\* at least one subcategory, every subcategory at least one age group and
\* every age group at least one prescribed medicine.
C14_AggregatesNonEmpty ==
    (\A p \in Procs : req[p] = Idle) =>
       /\ \A d \in disease : \E sc \in subcategory : sc.diseaseId = d.id
       /\ \A sc \in subcategory : \E ag \in ageGroup : ag.subcategoryId = sc.id
       /\ \A ag \in ageGroup : \E pm \in prescribed : pm.ageGroupId = ag.id

\* ---------------------------------------------------------------- C15
\* C15: when the user confirms the deletion of a listed disease, the request
\* arrives at the server's disease delete route, and when the handler has
\* its answer the disease is neither in the store nor in the list shown.
C15_ClientDeleteRemoves ==
    [][/\ (client.call = NoCall /\ client'.call.kind = "deleteDisease")
            => (InFlight(1)' /\ req'[1].op = "DeleteDisease")
       /\ (client.call.kind = "deleteDisease" /\ client'.call = NoCall)
            => /\ client.call.id \notin Ids(disease')
               /\ \A i \in 1 .. Len(client'.diseases) :
                     client'.diseases[i] # client.call.id]_vars

\* ---------------------------------------------------------------- C16
\* C16: when handleSave sends the payload of a form for a new disease (the
\* form has passed the component's checks) and every age group of the form
\* has a medicine with a name, the server's validateDiseasePayload accepts
\* the payload and the POST creates the disease.
C16_SavedFormIsCreated ==
    [][(/\ client.call = NoCall
        /\ client'.call.kind = "save"
        /\ client'.call.editing = 0
        /\ \A i \in 1 .. Len(client'.call.form.subcategories) :
             \A j \in 1 .. Len(client'.call.form.subcategories[i].ageGroups) :
                \E k \in 1 .. Len(client'.call.form.subcategories[i]
                                    .ageGroups[j].medicines) :
                   trim(Chars(client'.call.form.subcategories[i]
                                .ageGroups[j].medicines[k].name)) # <<>>)
          => (/\ validateDiseasePayload(client'.call.payload)
              /\ last'.status = 201
              /\ \E d \in disease' \ disease :
                    d.name = client'.call.form.name)]_vars

\* ---------------------------------------------------------------- C17
\* C17: when bulk POST /diseases/complex answers 400, the request has stored
\* no disease: results, the diseases it has created, is empty.
C17_BulkComplexAllOrNothing ==
    (last.op = "BulkDiseasesComplex" /\ last.status = 400) => last.count = 0

\* ---------------------------------------------------------------- C18
\* C18: in every turn of bulk POST /diseases/complex the count of the request
\* grows by the number of diseases the turn stores, so the count of a 201 is
\* the number of diseases the request has stored; and a turn on an item
\* whose name is stored (by another request or by an earlier item) stores
\* nothing and answers no error: the loop goes on to the next item, and after
\* the last item the answer is 201.
C18_BulkComplexSkipsAndCounts ==
    [][LET bulk == "BulkDiseasesComplex"
           turn == \/ req'[1].op = bulk /\ req'[1] # req[1]
                   \/ last'.op = bulk /\ Has(last'.body, "array")
           r == IF req[1].op = bulk THEN req[1]
                ELSE [i |-> 1, count |-> 0,
                      body |-> IF req'[1].op = bulk THEN req'[1].body
                               ELSE last'.body]
           item == r.body.array[r.i]
           now == IF req'[1].op = bulk THEN req'[1].count ELSE last'.count
       IN  (turn /\ r.body.array # <<>>) =>
             /\ now - r.count = Cardinality(disease' \ disease)
             /\ disease \subseteq disease'
             /\ (/\ Has(item, "name") /\ Has(item, "subcategories")
                 /\ DataValid(BulkCreateData(item.subcategories))
                 /\ \E d \in disease : d.name = item.name)
                  => /\ UNCHANGED tables
                     /\ IF r.i < Len(r.body.array)
                        THEN req'[1].op = bulk /\ req'[1].i = r.i + 1
                        ELSE last'.status = 201]_vars

\* A 201 with count 1 for the two items flu and cold: flu was stored before
\* the request, which skipped it and went on to store cold with its tree.
C18_Witness ==
    /\ last.op = "BulkDiseasesComplex" /\ last.status = 201
    /\ last.count = 1
    /\ Len(last.body.array) = 2
    /\ last.body.array[1].name = "flu" /\ last.body.array[2].name = "cold"
    /\ \E d \in disease :
         /\ d.name = "flu"
         /\ \E sc \in subcategory : sc.diseaseId = d.id /\ sc.name = "severe"
    /\ \E d \in disease :
         /\ d.name = "cold"
         /\ \E sc \in subcategory : sc.diseaseId = d.id /\ sc.name = "mild"

\* ---------------------------------------------------------------- C19
\* The ids of the paths that are numbers.
NumericIdTexts == {"1", "2", "0", "-7"}

\* C19: a GET, PUT or DELETE /medicines/:id whose id is not a number answers
\* 400; with a number that is the id of no stored medicine the GET, the PUT
\* with its four fields and the DELETE answer 404; a PUT that lacks one of
\* name, form, strength and unit answers 400; and in each of these cases
\* the store is left as it is.
C19_MedicineRouteErrors ==
    [][/\ \A t \in MedicineIdTexts \ NumericIdTexts :
            (\/ GetMedicine(t)
             \/ \E body \in {Full, [name |-> "x"]} : PutMedicine(t, body)
             \/ DeleteMedicine(1, t))
               => (last'.status = 400 /\ UNCHANGED tables)
       /\ \A t \in NumericIdTexts :
            (/\ parseInt(t) \notin Ids(medicine)
             /\ GetMedicine(t) \/ PutMedicine(t, Full))
               => (last'.status = 404 /\ UNCHANGED tables)
       /\ (/\ last'.op = "DeleteMedicine" /\ last'.id # NaN
           /\ last'.id \notin Ids(medicine))
               => (last'.status = 404 /\ UNCHANGED tables)
       /\ (/\ last'.op = "PutMedicine"
           /\ \E f \in MedicineFields :
                 ~Has(last'.body.data, f) \/ last'.body.data[f] = "")
               => (last'.status = 400 /\ UNCHANGED tables)
       /\ (/\ last'.op \in {"GetMedicine", "PutMedicine", "DeleteMedicine"}
           /\ last'.status >= 400)
               => UNCHANGED tables]_vars

\* ---------------------------------------------------------------- C20
\* C20: every step of a PUT /diseases/:id or DELETE /disease/:id for the
\* disease d, whether the request ends in a success or in an error, leaves
\* the rows of the other diseases, their subcategories, age groups and
\* prescribed medicines as they are, and so the medicines and the inventory.
C20_OnlyOwnAggregateChanges ==
    [][\A p \in Procs :
         LET r == IF InFlight(p) THEN req[p] ELSE req'[p]
             d == r.id
             scs == {sc \in subcategory : sc.diseaseId = d}
             scsAfter == {sc \in subcategory' : sc.diseaseId = d}
             ags == {ag \in ageGroup : ag.subcategoryId \in Ids(scs)}
             agsAfter == {ag \in ageGroup' :
                            ag.subcategoryId \in Ids(scsAfter)}
             pms == {pm \in prescribed : pm.ageGroupId \in Ids(ags)}
             pmsAfter == {pm \in prescribed' :
                            pm.ageGroupId \in Ids(agsAfter)}
         IN  (req'[p] # req[p] /\ r.op \in {"PutDisease", "DeleteDisease"})
               => /\ {x \in disease : x.id # d}
                       = {x \in disease' : x.id # d}
                  /\ subcategory \ scs = subcategory' \ scsAfter
                  /\ ageGroup \ ags = ageGroup' \ agsAfter
                  /\ prescribed \ pms = prescribed' \ pmsAfter
                  /\ UNCHANGED <<medicine, inventory, department, staff,
                                 bed>>]_vars

\* A PUT of disease 1 has failed and a DELETE of it may follow: disease 1 has
\* lost its tree while disease 2 is stored with its subcategory, age group
\* and prescribed medicine.
C20_Witness ==
    /\ last.op = "PutDisease" /\ last.id = 1 /\ last.status = 500
    /\ last.before.tree # <<>>
    /\ SubcategoriesOf(1) = {}
    /\ 2 \in Ids(disease)
    /\ PrescribedOf(2) # {}

\* ---------------------------------------------------------------- C21
\* C21: a manual refresh cancels the timeout that was pending before it; the
\* timeouts of the mounted dashboard are due one hour after the last manual
\* refresh or later; and the mounted dashboard has at most one timeout
\* pending.
C21_RefreshResetsTimer ==
    [][/\ manualFetchPredictions =>
            client.home.timers \cap client'.home.timers = {}
       /\ client'.home.phase = "mounted" =>
            /\ Cardinality(client'.home.timers) <= 1
            /\ \A t \in client'.home.timers :
                  t.due >= client'.home.lastManual + HourTicks]_vars

\* ---------------------------------------------------------------- C22
\* C22: once the dashboard is unmounted no timeout is pending, and no step
\* after the unmount calls fetchPredictions or schedules a timeout.
C22_UnmountClearsTimer ==
    [][/\ client'.home.phase = "unmounted" => client'.home.timers = {}
       /\ client.home.phase = "unmounted" =>
            /\ client'.home.fetches = client.home.fetches
            /\ client'.home.nextId = client.home.nextId]_vars

\* ---------------------------------------------------------------- C23
\* C23: the status shown for an item is Expired when its expiry date is
\* before now; otherwise Expiring Soon when the expiry date is at most 30
\* days ahead; otherwise Low Stock when availableQty is at most 10;
\* otherwise Good; and an item without an expiry date is neither Expired
\* nor Expiring Soon.
C23_StatusByPriority ==
    client.shown.status # "none" =>
       LET sh == client.shown
           dated == Has(sh.item, "expiryDate")
                    /\ sh.item.expiryDate \notin {"", "n/a"}
           day == DateTime(sh.item.expiryDate)
           expired == dated /\ day < sh.today
           soon == dated /\ day - sh.later <= ThirtyDays
       IN  /\ sh.status = "Expired" <=> expired
           /\ sh.status = "Expiring Soon" <=> (~expired /\ soon)
           /\ sh.status = "Low Stock" <=>
                (~expired /\ ~soon /\ sh.item.availableQty <= 10)
           /\ sh.status = "Good" <=>
                (~expired /\ ~soon /\ sh.item.availableQty > 10)
           /\ ~dated => sh.status \in {"Low Stock", "Good"}

\* An item of low stock whose expiry date is exactly 30 days ahead is shown
\* as Expiring Soon.
C23_Witness ==
    /\ client.shown.status = "Expiring Soon"
    /\ client.shown.item.availableQty = 0
    /\ DateTime(client.shown.item.expiryDate)
         = client.shown.later + ThirtyDays

\* ---------------------------------------------------------------- C24
\* The mapping as the claim gives it.
GroupAsClaimed(group) ==
    CASE group \in {"Child", "child", "CHILD"} -> "CHILD"
      [] group \in {"Teenager", "teenager", "TEENAGER"} -> "TEENAGER"
      [] group \in {"Older", "older", "OLDER"} -> "OLDER"
      [] OTHER -> "ADULT"

\* C24: mapGroupToEnum gives CHILD, TEENAGER, ADULT and OLDER for their
\* three spellings and ADULT for every other input, also a missing group;
\* so a bulk POST /diseases/complex of one disease with a free name and a
\* stored medicine stores its age group with that group, and every stored
\* age group has a group of the enum.
C24_GroupsMapped ==
    [][/\ \A group \in GroupInputs :
            (/\ BulkDiseasesComplexArrive(1, GroupBody(group))
             /\ DiseaseNameFree("cold", 0)
             /\ 1 \in Ids(medicine))
               => /\ mapGroupToEnum(group) = GroupAsClaimed(group)
                  /\ \E ag \in ageGroup' \ ageGroup :
                        ag.group = GroupAsClaimed(group)
       /\ \A ag \in ageGroup' : ag.group \in AgeGroupEnum]_vars

====
